---- MODULE Spec2Model ----
(***************************************************************************)
(* NutriLens Flask backend: the food-log endpoints (routes/food_logs.py),  *)
(* the food endpoints (routes/foods.py), the bearer-token prologue of the  *)
(* user-data and admin endpoints, the weekly / monthly / yearly reports    *)
(* (routes/user_data.py) and the chat limiter (routes/chat.py).            *)
(*                                                                         *)
(* Python floats are modelled as exact rationals <<num, den>> in lowest    *)
(* terms with den > 0; Python strings that the code inspects (unit,        *)
(* serving_size) are sequences of one-character strings.                   *)
(***************************************************************************)
EXTENDS Integers, Sequences, FiniteSets, TLC

VARIABLES
    foods,              \* mongo_db.foods: food id -> food document
    user_food_logs,     \* mongo_db.user_food_logs: log id -> log entry
    nextLogId,          \* the next ObjectId insert_one hands out
    today,              \* datetime.utcnow() as a day number
    resp,               \* the response of the last request handled
    user_docs,          \* user_profiles / user_goals / daily_meals / daily_activity
    users,              \* mongo_db.users: user id -> [is_admin]
    chat,               \* state of the chat endpoint (SpecChat)
    pending,            \* upserts that matched no document and have not inserted yet
    pending_registrations,  \* mongo_db.pending_registrations
    cache               \* utils/cache.py: a Cache and the clock (SpecCache)

vars == <<foods, user_food_logs, nextLogId, today, resp, user_docs, users, chat, pending,
          pending_registrations, cache>>

----------------------------------------------------------------------------
(* Bounds of the model                                                     *)

MaxLogs == 2

----------------------------------------------------------------------------
(* Rational arithmetic standing for Python float arithmetic                *)

Abs(n) == IF n < 0 THEN -n ELSE n

RECURSIVE Gcd(_, _)
Gcd(a, b) == IF b = 0 THEN a ELSE Gcd(b, a % b)

Rat(n, d) ==
    LET g == Gcd(Abs(n), Abs(d))
        s == IF d < 0 THEN -1 ELSE 1
    IN  IF n = 0 THEN <<0, 1>> ELSE <<(s * n) \div g, (s * d) \div g>>

RInt(n) == <<n, 1>>
RMul(a, b) == Rat(a[1] * b[1], a[2] * b[2])
RDiv(a, b) == Rat(a[1] * b[2], a[2] * b[1])
RAdd(a, b) == Rat(a[1] * b[2] + b[1] * a[2], a[2] * b[2])
RLt(a, b) == a[1] * b[2] < b[1] * a[2]
RLe(a, b) == a[1] * b[2] <= b[1] * a[2]
RPos(a) == a[1] > 0
IsInteger(a) == a[2] = 1
IsOneDecimal(a) == 10 % a[2] = 0

\* round-half-to-even of n/d (d > 0) to an integer: Python 3's round()
RoundHalfEven(n, d) ==
    LET q == n \div d
        r == n % d
    IN  IF 2 * r < d THEN q
        ELSE IF 2 * r > d THEN q + 1
        ELSE IF q % 2 = 0 THEN q ELSE q + 1

\* round(x): an integer
Round0(x) == RInt(RoundHalfEven(x[1], x[2]))

\* round(x, 1): one decimal place
Round1(x) == Rat(RoundHalfEven(10 * x[1], x[2]), 10)

----------------------------------------------------------------------------
(* Strings as sequences of characters                                      *)

UpperChars == <<"A","B","C","D","E","F","G","H","I","J","K","L","M",
                "N","O","P","Q","R","S","T","U","V","W","X","Y","Z">>
LowerChars == <<"a","b","c","d","e","f","g","h","i","j","k","l","m",
                "n","o","p","q","r","s","t","u","v","w","x","y","z">>
DigitChars == <<"0","1","2","3","4","5","6","7","8","9">>

UpperSet == {UpperChars[i] : i \in 1..26}
LowerOf == [c \in UpperSet |-> LowerChars[CHOOSE i \in 1..26 : UpperChars[i] = c]]
DigitSet == {DigitChars[i] : i \in 1..10}
DigitOf == [c \in DigitSet |-> (CHOOSE i \in 1..10 : DigitChars[i] = c) - 1]

LowerChar(c) == IF c \in UpperSet THEN LowerOf[c] ELSE c

\* str.lower()
Lower(s) == [i \in 1..Len(s) |-> LowerChar(s[i])]

IsDigit(c) == c \in DigitSet
DigitVal(c) == DigitOf[c]
IsSpace(c) == c = " "

\* s[i..] starts with p
StartsAt(s, i, p) ==
    /\ i + Len(p) - 1 <= Len(s)
    /\ \A k \in 1..Len(p) : s[i + k - 1] = p[k]

\* Python's  p in s
Contains(s, p) == \E i \in 1..(Len(s) - Len(p) + 1) : StartsAt(s, i, p)

\* the last index of the run of digits that starts at i
RECURSIVE DigitsEnd(_, _)
DigitsEnd(s, i) ==
    IF i + 1 <= Len(s) /\ IsDigit(s[i + 1]) THEN DigitsEnd(s, i + 1) ELSE i

\* the first index at or after i that holds no whitespace
RECURSIVE SkipSpace(_, _)
SkipSpace(s, i) ==
    IF i <= Len(s) /\ IsSpace(s[i]) THEN SkipSpace(s, i + 1) ELSE i

\* int() of the digits s[i..j]
RECURSIVE DigitsValue(_, _, _)
DigitsValue(s, i, j) ==
    IF j < i THEN 0 ELSE 10 * DigitsValue(s, i, j - 1) + DigitVal(s[j])

RECURSIVE Pow10(_)
Pow10(k) == IF k = 0 THEN 1 ELSE 10 * Pow10(k - 1)

NoMatch == [found |-> FALSE, value |-> <<0, 1>>]
Match(v) == [found |-> TRUE, value |-> v]

\* (\d+)\s*ml matches the lowered string l at i
MlMatchAt(l, i) ==
    IsDigit(l[i]) /\ StartsAt(l, SkipSpace(l, DigitsEnd(l, i) + 1), <<"m", "l">>)

\* the leftmost index at or after i where the pattern matches, 0 when none
RECURSIVE MlFirstMatch(_, _)
MlFirstMatch(l, i) ==
    IF i > Len(l) THEN 0
    ELSE IF MlMatchAt(l, i) THEN i
    ELSE MlFirstMatch(l, i + 1)

\* faulty variant of ML_PATTERN_search: the pattern never matches, so the
\* divisor falls back to serving_weight_grams
ML_PATTERN_no_match(s) == NoMatch

\* ML_PATTERN.search(s): (\d+)\s*ml, IGNORECASE; value is float(group(1))
ML_PATTERN_search(s) ==
    LET l == Lower(s)
        i == MlFirstMatch(l, 1)
    IN  IF i = 0 THEN NoMatch ELSE Match(RInt(DigitsValue(l, i, DigitsEnd(l, i))))

\* WEIGHT_PATTERN: (\d+(?:\.\d+)?)\s*g(?:rams?)?, IGNORECASE
HasFraction(l, j) ==
    j + 2 <= Len(l) /\ l[j + 1] = "." /\ IsDigit(l[j + 2])

\* the last index of the number that starts at i, when the pattern matches there
WeightNumberEnd(l, i) ==
    LET j == DigitsEnd(l, i)
    IN  IF HasFraction(l, j) /\ StartsAt(l, SkipSpace(l, DigitsEnd(l, j + 2) + 1), <<"g">>)
        THEN DigitsEnd(l, j + 2)
        ELSE j

WeightMatchAt(l, i) ==
    IsDigit(l[i]) /\ StartsAt(l, SkipSpace(l, WeightNumberEnd(l, i) + 1), <<"g">>)

RECURSIVE WeightFirstMatch(_, _)
WeightFirstMatch(l, i) ==
    IF i > Len(l) THEN 0
    ELSE IF WeightMatchAt(l, i) THEN i
    ELSE WeightFirstMatch(l, i + 1)

\* float() of the number s[i..e], digits with an optional fraction
NumberValue(s, i, e) ==
    LET j == DigitsEnd(s, i)
    IN  IF e = j THEN RInt(DigitsValue(s, i, j))
        ELSE RAdd(RInt(DigitsValue(s, i, j)),
                  Rat(DigitsValue(s, j + 2, e), Pow10(e - j - 1)))

\* WEIGHT_PATTERN.search(s); value is float(group(1))
WEIGHT_PATTERN_search(s) ==
    LET l == Lower(s)
        i == WeightFirstMatch(l, 1)
    IN  IF i = 0 THEN NoMatch ELSE Match(NumberValue(l, i, WeightNumberEnd(l, i)))

----------------------------------------------------------------------------
(* Calendar: datetime.date as a day number, the 'YYYY-MM-DD' key a document *)
(* stores as <<year, month, day>>; two keys compare as the strings do       *)

FirstYear == 2024
LastYear == 2027

IsLeap(y) == (y % 4 = 0 /\ y % 100 # 0) \/ y % 400 = 0

DaysInMonth(y, m) ==
    IF m = 2 THEN (IF IsLeap(y) THEN 29 ELSE 28)
    ELSE IF m \in {4, 6, 9, 11} THEN 30 ELSE 31

DaysInYear(y) == IF IsLeap(y) THEN 366 ELSE 365

RECURSIVE DaysBeforeYear(_)
DaysBeforeYear(y) == IF y <= FirstYear THEN 0 ELSE DaysBeforeYear(y - 1) + DaysInYear(y - 1)

RECURSIVE DaysBeforeMonth(_, _)
DaysBeforeMonth(y, m) == IF m <= 1 THEN 0 ELSE DaysBeforeMonth(y, m - 1) + DaysInMonth(y, m - 1)

\* date.toordinal(), counted from the first day of FirstYear
ToOrdinal(ymd) == DaysBeforeYear(ymd[1]) + DaysBeforeMonth(ymd[1], ymd[2]) + ymd[3]

\* strftime('%Y-%m-%d') of a day number
FromOrdinal(n) ==
    LET y == CHOOSE y \in FirstYear..LastYear :
                 DaysBeforeYear(y) < n /\ n <= DaysBeforeYear(y) + DaysInYear(y)
        r == n - DaysBeforeYear(y)
        m == CHOOSE m \in 1..12 :
                 DaysBeforeMonth(y, m) < r /\ r <= DaysBeforeMonth(y, m) + DaysInMonth(y, m)
    IN  <<y, m, r - DaysBeforeMonth(y, m)>>

\* strftime('%Y-%m'): the month key
MonthKey(ymd) == <<ymd[1], ymd[2]>>

\* a <= b for two 'YYYY-MM-DD' strings
DateLe(a, b) ==
    \/ a[1] < b[1]
    \/ a[1] = b[1] /\ a[2] < b[2]
    \/ a[1] = b[1] /\ a[2] = b[2] /\ a[3] <= b[3]

----------------------------------------------------------------------------
(* JSON values of request bodies and stored documents                       *)

\* a value a handler reads as a number: key absent, null, a number, a string
\* float() parses ("5"), a string it does not parse ("abc")
JAbsent == [t |-> "absent", v |-> <<0, 1>>]
JNull == [t |-> "null", v |-> <<0, 1>>]
JNum(r) == [t |-> "num", v |-> r]
JNumStr(r) == [t |-> "numstr", v |-> r]
JBadStr == [t |-> "badstr", v |-> <<0, 1>>]

\* Python truthiness:  not x  is ~Truthy(x)
Truthy(j) ==
    CASE j.t \in {"absent", "null"} -> FALSE
      [] j.t = "num" -> j.v[1] # 0
      [] OTHER -> TRUE

\* float(x) succeeds (TypeError on None, ValueError on "abc")
FloatOk(j) == j.t \in {"num", "numstr"}
Float(j) == j.v

\* dict.get(key, default)
Get(j, default) == IF j.t = "absent" THEN default ELSE j

\* a value a handler reads as a string: key absent, a string, anything else
SAbsent == [t |-> "absent", s |-> <<>>]
SStr(s) == [t |-> "str", s |-> s]
SNonStr == [t |-> "nonstr", s |-> <<>>]

Fields == {"calories", "protein", "carbs", "fat", "fiber", "sugar", "sodium"}

----------------------------------------------------------------------------
(* routes/food_logs.py: unit normalisation and nutrition scaling            *)

Raise == [ok |-> FALSE, value |-> <<0, 1>>]
Return(v) == [ok |-> TRUE, value |-> v]

piece_based_units ==
    { <<"p","i","e","c","e">>, <<"s","l","i","c","e">>, <<"e","g","g">>,
      <<"a","p","p","l","e">>, <<"b","a","n","a","n","a">>,
      <<"c","o","o","k","i","e">>, <<"c","r","a","c","k","e","r">>,
      <<"m","u","f","f","i","n">>, <<"d","o","n","u","t">>,
      <<"b","a","g","e","l">>, <<"r","o","l","l">>,
      <<"m","e","a","t","b","a","l","l">>, <<"n","u","g","g","e","t">>,
      <<"p","a","t","t","y">>, <<"s","a","u","s","a","g","e">>,
      <<"h","o","t"," ","d","o","g">>, <<"b","u","r","g","e","r">>,
      <<"p","a","n","c","a","k","e">>, <<"w","a","f","f","l","e">>,
      <<"t","o","a","s","t">>, <<"b","i","s","c","u","i","t">>,
      <<"c","r","o","i","s","s","a","n","t">>, <<"p","r","e","t","z","e","l">> }

is_piece_based(unit) == \E piece_unit \in piece_based_units : Contains(unit, piece_unit)

is_drink(unit) ==
    \/ unit \in { <<"c","a","n">>, <<"b","o","t","t","l","e">> }
    \/ Contains(unit, <<"m","l">>)

\* faulty variant of serving_weight_of: the default, whatever the food holds
serving_weight_default(food) == JNum(RInt(100))

\* food.get('serving_weight_grams') or 100
serving_weight_of(food) ==
    IF Truthy(food.serving_weight_grams) THEN food.serving_weight_grams
    ELSE JNum(RInt(100))

\* food.get('serving_size') or food.get('serving') or '100 g'
serving_size_of(food) ==
    IF Len(food.serving_size) > 0 THEN food.serving_size
    ELSE IF Len(food.serving) > 0 THEN food.serving
    ELSE <<"1","0","0"," ","g">>

\* a comparison or an arithmetic operation of a str with a number: TypeError
IsNumber(j) == j.t = "num"

\* faulty variant of log_food_multiplier: the quantity over the serving
\* weight, with no guard and no branch
log_food_multiplier_unguarded(food, quantity_float, original_amount_float, unit) ==
    IF ~IsNumber(serving_weight_of(food)) THEN Raise
    ELSE Return(RDiv(quantity_float, serving_weight_of(food).v))

\* log_food, lines 71-100: the multiplier, or the exception raised
log_food_multiplier(food, quantity_float, original_amount_float, unit) ==
    LET serving_weight == serving_weight_of(food)
        serving_size == serving_size_of(food)
    IN  IF is_drink(unit) THEN
            LET ml_match == ML_PATTERN_search(serving_size)
                serving_size_ml ==
                    IF Len(serving_size) > 0 /\ ml_match.found
                    THEN JNum(ml_match.value) ELSE serving_weight
            IN  IF ~IsNumber(serving_size_ml) THEN Raise
                ELSE IF RPos(serving_size_ml.v)
                     THEN Return(RDiv(quantity_float, serving_size_ml.v))
                     ELSE Return(RDiv(quantity_float, RInt(100)))
        ELSE IF is_piece_based(unit) THEN
            LET weight_match == WEIGHT_PATTERN_search(serving_size)
                heuristic ==
                    IF Contains(unit, <<"e","g","g">>) THEN Return(RInt(50))
                    ELSE IF Contains(unit, <<"a","p","p","l","e">>) THEN Return(RInt(182))
                    ELSE IF Contains(unit, <<"b","a","n","a","n","a">>) THEN Return(RInt(118))
                    ELSE IF ~IsNumber(serving_weight) THEN Raise
                    ELSE IF RLt(serving_weight.v, RInt(200)) THEN Return(serving_weight.v)
                    ELSE Return(RInt(100))
                weight_per_piece ==
                    IF Len(serving_size) > 0
                    THEN IF weight_match.found THEN Return(weight_match.value) ELSE heuristic
                    ELSE IF IsNumber(serving_weight) THEN Return(serving_weight.v) ELSE Raise
            IN  IF ~weight_per_piece.ok \/ ~IsNumber(serving_weight) THEN Raise
                ELSE LET total_weight == RMul(original_amount_float, weight_per_piece.value)
                     IN  IF RPos(serving_weight.v)
                         THEN Return(RDiv(total_weight, serving_weight.v))
                         ELSE Return(RInt(1))
        ELSE
            IF ~IsNumber(serving_weight) THEN Raise
            ELSE IF RPos(serving_weight.v)
                 THEN Return(RDiv(quantity_float, serving_weight.v))
                 ELSE Return(RDiv(quantity_float, RInt(100)))

\* food.get(k, 0), then float()
fact(food, k) == Float(Get(food.facts[k], JNum(RInt(0))))

\* log_food, lines 102-110
log_food_nutrition(food, multiplier) ==
    [k \in Fields |->
        IF k = "calories" THEN Round0(RMul(fact(food, k), multiplier))
        ELSE Round1(RMul(fact(food, k), multiplier))]

\* update_log, lines 276-305: the multiplier, or the exception raised
update_log_multiplier(food, quantity, original_amount, unit) ==
    LET serving_weight == serving_weight_of(food)
        serving_size == serving_size_of(food)
    IN  IF is_drink(unit) THEN
            LET ml_match == ML_PATTERN_search(serving_size)
                serving_size_ml ==
                    IF Len(serving_size) > 0 /\ ml_match.found
                    THEN JNum(ml_match.value) ELSE serving_weight
            IN  IF ~IsNumber(serving_size_ml) THEN Raise
                ELSE IF RPos(serving_size_ml.v)
                     THEN Return(RDiv(quantity, serving_size_ml.v))
                     ELSE Return(RDiv(quantity, RInt(100)))
        ELSE IF is_piece_based(unit) THEN
            LET weight_match == WEIGHT_PATTERN_search(serving_size)
                heuristic ==
                    IF Contains(unit, <<"e","g","g">>) THEN Return(RInt(50))
                    ELSE IF Contains(unit, <<"a","p","p","l","e">>) THEN Return(RInt(182))
                    ELSE IF Contains(unit, <<"b","a","n","a","n","a">>) THEN Return(RInt(118))
                    ELSE IF ~IsNumber(serving_weight) THEN Raise
                    ELSE IF RLt(serving_weight.v, RInt(200)) THEN Return(serving_weight.v)
                    ELSE Return(RInt(100))
                weight_per_piece ==
                    IF Len(serving_size) > 0
                    THEN IF weight_match.found THEN Return(weight_match.value) ELSE heuristic
                    ELSE IF IsNumber(serving_weight) THEN Return(serving_weight.v) ELSE Raise
            IN  IF ~weight_per_piece.ok \/ ~IsNumber(serving_weight) THEN Raise
                ELSE LET total_weight == RMul(original_amount, weight_per_piece.value)
                     IN  IF RPos(serving_weight.v)
                         THEN Return(RDiv(total_weight, serving_weight.v))
                         ELSE Return(RInt(1))
        ELSE
            IF ~IsNumber(serving_weight) THEN Raise
            ELSE IF RPos(serving_weight.v)
                 THEN Return(RDiv(quantity, serving_weight.v))
                 ELSE Return(RDiv(quantity, RInt(100)))

\* update_log, lines 307-315
update_log_nutrition(food, multiplier) ==
    [k \in Fields |->
        IF k = "calories" THEN Round0(RMul(fact(food, k), multiplier))
        ELSE Round1(RMul(fact(food, k), multiplier))]

----------------------------------------------------------------------------
(* Bearer tokens                                                            *)

UserIds == {"u1", "u2"}
NoUser == "None"

\* the Authorization header of a request
NoHeader == [kind |-> "none", userId |-> NoUser]           \* no header at all
Malformed == [kind |-> "malformed", userId |-> NoUser]     \* not "Bearer <token>"
BadSignature == [kind |-> "badsig", userId |-> "u1"]       \* signed with another key
Expired == [kind |-> "expired", userId |-> "u1"]           \* u1's token, exp has passed
AccessToken(u) == [kind |-> "access", userId |-> u]        \* create_access_token(u)
EmailToken == [kind |-> "verify", userId |-> NoUser]       \* create_email_token: no userId

RejectedTokens == {NoHeader, Malformed, BadSignature, Expired}
Tokens == RejectedTokens \cup {AccessToken(u) : u \in UserIds} \cup {EmailToken}

\* verify_token without the check of signature and expiry
verify_token_unchecked(tok) == [ok |-> TRUE, userId |-> tok.userId]

\* routes/auth.py verify_token: the decoded payload, or None
verify_token(tok) ==
    IF tok.kind \in {"access", "verify"} THEN [ok |-> TRUE, userId |-> tok.userId]
    ELSE [ok |-> FALSE, userId |-> NoUser]

\* routes/food_logs.py require_auth: (user_id, err)
require_auth(tok) ==
    IF tok.kind \in {"none", "malformed"} THEN [user_id |-> NoUser, err |-> 401]
    ELSE IF ~verify_token(tok).ok THEN [user_id |-> NoUser, err |-> 401]
    ELSE [user_id |-> verify_token(tok).userId, err |-> 0]

----------------------------------------------------------------------------
(* Responses                                                                *)

NoData == <<>>

\* steps: the stages of the handler the request went through
\* token: the Authorization header of the request (NoHeader where the handler
\*        reads none); user_id: the caller it names (NoUser when there is none)
\* request: the body, query or path parameters the handler was called with
Response(op, tok, request, status, steps, data) ==
    [op |-> op, token |-> tok, user_id |-> verify_token(tok).userId,
     request |-> request, status |-> status, success |-> status < 400,
     steps |-> steps, data |-> data]

NoResponse == Response("none", NoHeader, <<>>, 0, {}, NoData)

----------------------------------------------------------------------------
(* routes/food_logs.py: handlers                                            *)

FoodIds == {"f1", "f2"}
UnknownFoodId == "f9"        \* a well-formed ObjectId of no food
BadFoodId == "bad"           \* ObjectId() rejects it
NoFoodId == ""               \* foodId missing

LogIds == 1..MaxLogs
UnknownLogId == 0            \* a well-formed ObjectId of no log
BadLogId == -1               \* ObjectId() rejects it

\* foods_collection.find_one({'_id': ObjectId(str(food_id))}), None on any failure
find_food(food_id) == IF food_id \in DOMAIN foods THEN {foods[food_id]} ELSE {}

\* log_food line 45: float(original_amount) if original_amount else quantity_float
\* faulty variant of log_food_original_amount: the quantity, always
original_amount_ignored(quantity, original_amount) == Float(quantity)

log_food_original_amount(quantity, original_amount) ==
    IF Truthy(original_amount) THEN Float(original_amount) ELSE Float(quantity)

log_food(tok, data) ==
    LET auth == require_auth(tok)
        user_id == auth.user_id
        food_id == data.foodId
        quantity == Get(data.quantity, JNull)
        meal_type == data.mealType
        logged_at == IF data.loggedAt.t = "iso" THEN data.loggedAt.day ELSE today
        original_amount == Get(data.originalAmount, quantity)
        unit == IF data.unit.t = "absent" THEN <<"g">> ELSE Lower(data.unit.s)
        quantity_float == Float(quantity)
        original_amount_float == log_food_original_amount(quantity, original_amount)
        Reject(status, steps) ==
            /\ resp' = Response("log_food", tok, data, status, steps, NoData)
            /\ UNCHANGED <<foods, user_food_logs, nextLogId>>
    IN  /\ UNCHANGED <<today, user_docs, users, chat, pending, pending_registrations, cache>>
        /\ IF auth.err # 0 THEN Reject(auth.err, {"auth"})
           \* unit = data.get('unit', 'g').lower() outside any try: AttributeError
           ELSE IF data.unit.t = "nonstr" THEN Reject(500, {"auth"})
           ELSE IF food_id = NoFoodId \/ ~Truthy(quantity) \/ meal_type = ""
                THEN Reject(400, {"auth", "validate"})
           ELSE IF ~FloatOk(quantity) THEN Reject(400, {"auth", "validate"})
           ELSE IF ~RPos(quantity_float) THEN Reject(400, {"auth", "validate"})
           ELSE IF Truthy(original_amount) /\ ~FloatOk(original_amount)
                THEN Reject(400, {"auth", "validate"})
           ELSE IF find_food(food_id) = {}
                THEN Reject(404, {"auth", "validate", "lookup"})
           ELSE
             LET food == CHOOSE f \in find_food(food_id) : TRUE
                 multiplier ==
                     log_food_multiplier(food, quantity_float, original_amount_float, unit)
             IN  IF ~multiplier.ok
                 THEN Reject(500, {"auth", "validate", "lookup", "multiplier"})
                 ELSE
                   LET nutrition == log_food_nutrition(food, multiplier.value)
                       log_entry == [user_id |-> user_id,
                                     food_id |-> food_id,
                                     food_name |-> food.name,
                                     quantity |-> quantity_float,
                                     meal_type |-> meal_type,
                                     logged_at |-> logged_at,
                                     nutrition |-> nutrition]
                   IN  /\ nextLogId <= MaxLogs
                       /\ user_food_logs' =
                              [i \in DOMAIN user_food_logs \cup {nextLogId} |->
                                  IF i = nextLogId THEN log_entry ELSE user_food_logs[i]]
                       /\ nextLogId' = nextLogId + 1
                       /\ resp' = Response("log_food", tok, data, 201,
                                           {"auth", "validate", "lookup", "multiplier", "insert"},
                                           \* multiplier: not in the body, kept to observe it
                                           [logId |-> nextLogId, nutrition |-> nutrition,
                                            multiplier |-> multiplier.value])
                       /\ UNCHANGED foods

\* the ids of the caller's logs of one day
logs_of(user_id, day) ==
    {i \in DOMAIN user_food_logs :
        user_food_logs[i].user_id = user_id /\ user_food_logs[i].logged_at = day}

\* .sort('logged_at', -1); one day's logs tie, and come in insertion order
RECURSIVE sorted_logs(_)
sorted_logs(ids) ==
    IF ids = {} THEN <<>>
    ELSE LET i == CHOOSE i \in ids : \A j \in ids : i <= j
         IN  <<i>> \o sorted_logs(ids \ {i})

\* faulty variant of stored_nutrition: recomputed from the live food record
stored_nutrition_live(i) ==
    LET log == user_food_logs[i]
        food == find_food(log.food_id)
        multiplier ==
            IF food = {} THEN Raise
            ELSE log_food_multiplier(CHOOSE f \in food : TRUE, log.quantity, log.quantity, <<"g">>)
    IN  IF multiplier.ok
        THEN log_food_nutrition(CHOOSE f \in food : TRUE, multiplier.value)
        ELSE log.nutrition

\* get_logs line 202, summary's $sum of '$nutrition.<k>': the stored snapshot
stored_nutrition(i) == user_food_logs[i].nutrition

RECURSIVE sum_field(_, _)
sum_field(ids, k) ==
    IF ids = {} THEN RInt(0)
    ELSE LET i == CHOOSE i \in ids : TRUE
         IN  RAdd(stored_nutrition(i)[k], sum_field(ids \ {i}, k))

DefaultMeals == {"breakfast", "lunch", "dinner", "snack"}

\* target of a ?date= query parameter: strptime raises ValueError on a bad string
DateOk(date) == date.t # "bad"
Target(date) == IF date.t = "ymd" THEN date.day ELSE today

get_logs(tok, date) ==
    LET auth == require_auth(tok)
        user_id == auth.user_id
        logs == sorted_logs(logs_of(user_id, Target(date)))
        Entry(i) == [id |-> i,
                     foodName |-> user_food_logs[i].food_name,
                     quantity |-> user_food_logs[i].quantity,
                     mealType |-> user_food_logs[i].meal_type,
                     loggedAt |-> user_food_logs[i].logged_at,
                     nutrition |-> stored_nutrition(i)]
        entries == [n \in 1..Len(logs) |-> Entry(logs[n])]
        groups == [m \in DefaultMeals \cup {entries[n].mealType : n \in 1..Len(entries)} |->
                      SelectSeq(entries, LAMBDA e : e.mealType = m)]
        totals == [k \in Fields |-> sum_field(logs_of(user_id, Target(date)), k)]
    IN  /\ UNCHANGED <<foods, user_food_logs, nextLogId, today, user_docs, users, chat, pending, pending_registrations, cache>>
        /\ IF auth.err # 0 THEN resp' = Response("get_logs", tok, date, auth.err, {"auth"}, NoData)
           ELSE IF ~DateOk(date) THEN resp' = Response("get_logs", tok, date, 500, {"auth"}, NoData)
           ELSE resp' = Response("get_logs", tok, date, 200, {"auth", "find"},
                                 [date |-> Target(date), meals |-> groups,
                                  totalNutrition |-> totals, totalLogs |-> Len(logs)])

\* faulty variant of find_log: the filter without 'user_id'
find_log_any_owner(oid, user_id) ==
    IF oid \in DOMAIN user_food_logs THEN {oid} ELSE {}

\* food_logs_collection.find_one({'_id': oid, 'user_id': user_id})
find_log(oid, user_id) ==
    IF oid \in DOMAIN user_food_logs /\ user_food_logs[oid].user_id = user_id
    THEN {oid} ELSE {}

update_log(tok, log_id, data) ==
    LET auth == require_auth(tok)
        user_id == auth.user_id
        Reply(status, steps) ==
            /\ resp' = Response("update_log", tok, [logId |-> log_id, body |-> data], status, steps, [logId |-> log_id])
            /\ UNCHANGED user_food_logs
        recalc == data.quantity.t # "absent" \/ data.unit.t # "absent"
                  \/ data.originalAmount.t # "absent"
    IN  /\ UNCHANGED <<foods, nextLogId, today, user_docs, users, chat, pending, pending_registrations, cache>>
        /\ IF auth.err # 0 THEN Reply(auth.err, {"auth"})
           ELSE IF log_id = BadLogId THEN Reply(400, {"auth"})
           ELSE IF find_log(log_id, user_id) = {} THEN Reply(404, {"auth", "find"})
           ELSE
             LET log == user_food_logs[log_id]
                 quantity_in == Get(data.quantity, JNum(log.quantity))
                 quantity == Float(quantity_in)
                 original_amount_in == Get(data.originalAmount, JNum(quantity))
                 original_amount == Float(original_amount_in)
                 unit == IF data.unit.t = "absent" THEN <<"g">> ELSE Lower(data.unit.s)
                 food == find_food(log.food_id)
                 multiplier ==
                     IF food = {} THEN Raise
                     ELSE update_log_multiplier(CHOOSE f \in food : TRUE,
                                                quantity, original_amount, unit)
                 with_quantity == IF recalc THEN [log EXCEPT !.quantity = quantity] ELSE log
                 with_nutrition ==
                     IF recalc /\ multiplier.ok
                     THEN [with_quantity EXCEPT !.nutrition =
                              update_log_nutrition(CHOOSE f \in food : TRUE, multiplier.value)]
                     ELSE with_quantity
                 with_meal ==
                     IF data.mealType # ""
                     THEN [with_nutrition EXCEPT !.meal_type = data.mealType]
                     ELSE with_nutrition
             IN  \* float() of the quantity, .lower() of the unit, float() of the
                 \* originalAmount raise inside the outer try: 500
                 IF recalc /\ (~FloatOk(quantity_in) \/ data.unit.t = "nonstr"
                               \/ ~FloatOk(original_amount_in))
                 THEN Reply(500, {"auth", "find"})
                 ELSE /\ user_food_logs' = [user_food_logs EXCEPT ![log_id] = with_meal]
                      /\ resp' = Response("update_log", tok, [logId |-> log_id, body |-> data], 200,
                                          IF recalc /\ multiplier.ok
                                          THEN {"auth", "find", "lookup", "multiplier", "update"}
                                          ELSE IF recalc THEN {"auth", "find", "lookup", "update"}
                                          ELSE IF data.mealType # "" THEN {"auth", "find", "update"}
                                          ELSE {"auth", "find"},
                                          [logId |-> log_id])

delete_log(tok, log_id) ==
    LET auth == require_auth(tok)
        user_id == auth.user_id
        Reply(status, steps) ==
            /\ resp' = Response("delete_log", tok, [logId |-> log_id], status, steps, [logId |-> log_id])
            /\ UNCHANGED user_food_logs
    IN  /\ UNCHANGED <<foods, nextLogId, today, user_docs, users, chat, pending, pending_registrations, cache>>
        /\ IF auth.err # 0 THEN Reply(auth.err, {"auth"})
           ELSE IF log_id = BadLogId THEN Reply(400, {"auth"})
           ELSE IF find_log(log_id, user_id) = {} THEN Reply(404, {"auth", "delete"})
           ELSE /\ user_food_logs' =
                       [i \in DOMAIN user_food_logs \ {log_id} |-> user_food_logs[i]]
                /\ resp' = Response("delete_log", tok, [logId |-> log_id], 200, {"auth", "delete"}, [logId |-> log_id])

summary(tok, date) ==
    LET auth == require_auth(tok)
        user_id == auth.user_id
        matched == logs_of(user_id, Target(date))
        \* $group with $sum, then round() in Python, twice
        totals == [k \in Fields |->
                      IF k = "calories" THEN Round0(Round0(sum_field(matched, k)))
                      ELSE Round1(Round1(sum_field(matched, k)))]
    IN  /\ UNCHANGED <<foods, user_food_logs, nextLogId, today, user_docs, users, chat, pending, pending_registrations, cache>>
        /\ IF auth.err # 0 THEN resp' = Response("summary", tok, date, auth.err, {"auth"}, NoData)
           ELSE IF ~DateOk(date) THEN resp' = Response("summary", tok, date, 500, {"auth"}, NoData)
           ELSE resp' = Response("summary", tok, date, 200, {"auth", "aggregate"},
                                 [date |-> Target(date), totalNutrition |-> totals,
                                  totalLogs |-> Cardinality(matched)])

----------------------------------------------------------------------------
(* routes/foods.py: add_food and update_food (neither checks a token)       *)

NoFacts == [k \in Fields |-> JAbsent]

\* a request body: name "" when absent, extra when it holds only other keys
FoodBody(name, facts, serving_size, serving_weight_grams) ==
    [name |-> name, facts |-> facts, serving_size |-> serving_size,
     serving_weight_grams |-> serving_weight_grams, extra |-> FALSE]

EmptyBody == FoodBody("", NoFacts, SAbsent, JAbsent)

\* the stored value of a serving_size sent as a JSON string or null
stored_size(v) == IF v.t = "str" THEN v.s ELSE <<>>

add_food(data) ==
    LET free == FoodIds \ DOMAIN foods
        floats_ok == \A k \in Fields : data.facts[k].t = "absent" \/ FloatOk(data.facts[k])
        doc == [name |-> data.name,
                facts |-> [k \in Fields |->
                              JNum(Float(Get(data.facts[k], JNum(RInt(0)))))],
                serving_size |-> IF data.serving_size.t = "absent"
                                 THEN <<"1","0","0"," ","g">>
                                 ELSE stored_size(data.serving_size),
                serving |-> <<>>,
                serving_weight_grams |-> Get(data.serving_weight_grams, JNum(RInt(100)))]
    IN  /\ UNCHANGED <<user_food_logs, nextLogId, today, user_docs, users, chat, pending, pending_registrations, cache>>
        /\ IF data.name = "" \/ data.facts["calories"].t \in {"absent", "null"}
           THEN /\ resp' = Response("add_food", NoHeader, data, 400, {"validate"}, NoData)
                /\ UNCHANGED foods
           ELSE IF ~floats_ok
           THEN /\ resp' = Response("add_food", NoHeader, data, 500, {"validate"}, NoData)
                /\ UNCHANGED foods
           ELSE /\ free # {}
                /\ LET id == IF "f1" \in free THEN "f1" ELSE CHOOSE f \in free : TRUE
                   IN  /\ foods' = [f \in DOMAIN foods \cup {id} |->
                                       IF f = id THEN doc ELSE foods[f]]
                       /\ resp' = Response("add_food", NoHeader, data, 201, {"validate", "insert"},
                                           [foodId |-> id])

update_food(food_id, data) ==
    LET empty == /\ data.name = "" /\ ~data.extra
                 /\ \A k \in Fields : data.facts[k].t = "absent"
                 /\ data.serving_size.t = "absent"
                 /\ data.serving_weight_grams.t = "absent"
        floats_ok == \A k \in Fields : data.facts[k].t = "absent" \/ FloatOk(data.facts[k])
        no_fields == /\ data.name = ""
                     /\ \A k \in Fields : data.facts[k].t = "absent"
                     /\ data.serving_size.t = "absent"
                     /\ data.serving_weight_grams.t = "absent"
        Reply(status, steps) ==
            /\ resp' = Response("update_food", NoHeader, [foodId |-> food_id, body |-> data], status, steps, [foodId |-> food_id])
            /\ UNCHANGED foods
    IN  /\ UNCHANGED <<user_food_logs, nextLogId, today, user_docs, users, chat, pending, pending_registrations, cache>>
        /\ IF empty THEN Reply(400, {"validate"})
           ELSE IF food_id = BadFoodId THEN Reply(400, {"validate"})
           ELSE IF find_food(food_id) = {} THEN Reply(404, {"validate", "lookup"})
           ELSE IF ~floats_ok THEN Reply(500, {"validate", "lookup"})
           ELSE IF no_fields THEN Reply(400, {"validate", "lookup"})
           ELSE LET food == foods[food_id]
                    update_doc ==
                        [name |-> IF data.name # "" THEN data.name ELSE food.name,
                         facts |-> [k \in Fields |->
                                       IF data.facts[k].t = "absent" THEN food.facts[k]
                                       ELSE JNum(Float(data.facts[k]))],
                         serving_size |-> IF data.serving_size.t = "absent"
                                          THEN food.serving_size
                                          ELSE stored_size(data.serving_size),
                         serving |-> food.serving,
                         serving_weight_grams |->
                             Get(data.serving_weight_grams, food.serving_weight_grams)]
                IN  /\ foods' = [foods EXCEPT ![food_id] = update_doc]
                    /\ resp' = Response("update_food", NoHeader, [foodId |-> food_id, body |-> data], 200, {"validate", "lookup", "update"},
                                        [foodId |-> food_id])

----------------------------------------------------------------------------
(* routes/user_data.py: the endpoints on a user's documents.                *)
(* user_docs[coll] is the set of documents of a collection, each            *)
(* [userId, date, items]: date is the 'YYYY-MM-DD' key of a daily document  *)
(* (NoKey in user_profiles and user_goals), items the totalCalories of its  *)
(* meals (daily_meals) or the caloriesBurned of its exercises               *)
(* (daily_activity).  The other fields of a document are left out.          *)

Collections == {"user_profiles", "user_goals", "daily_meals", "daily_activity"}
DailyCollections == {"daily_meals", "daily_activity"}

MaxItems == 2

NoKey == <<0, 0, 0>>

\* n tells apart the documents of one collection with the same userId and
\* date (their _id): 1 for the first
Doc(user_id, date, items) ==
    [userId |-> user_id, date |-> date, items |-> items, n |-> 1]

\* datetime.utcnow().strftime('%Y-%m-%d')
TodayKey == FromOrdinal(today)

\* _require_user_id: (user_id, err)
require_user_id(tok) ==
    IF tok.kind \in {"none", "malformed"} THEN [user_id |-> NoUser, err |-> 401]
    ELSE IF ~verify_token(tok).ok THEN [user_id |-> NoUser, err |-> 401]
    ELSE [user_id |-> verify_token(tok).userId, err |-> 0]

\* coll.find({'userId': user_id, 'date': key})
find_docs(coll, user_id, key) ==
    {d \in user_docs[coll] : d.userId = user_id /\ d.date = key}

\* the key a handler uses for today's document of a collection
key_of(coll) == IF coll \in DailyCollections THEN TodayKey ELSE NoKey

Reads(colls) == {"read:" \o c : c \in colls}
Writes(colls) == {"write:" \o c : c \in colls}

\* the change an update makes to the items of a document
Keep == [mode |-> "keep", items |-> <<>>]       \* $set of fields left out here
Set(items) == [mode |-> "set", items |-> items]
Push(item) == [mode |-> "push", items |-> <<item>>]

changed(items, change) ==
    CASE change.mode = "set" -> change.items
      [] change.mode = "push" -> items \o change.items
      [] OTHER -> items

\* coll.update_one({'userId': user_id, 'date': key}, change, upsert=upsert):
\* the collection afterwards
update_one(coll, user_id, key, change, upsert) ==
    LET matched == find_docs(coll, user_id, key)
    IN  IF matched # {}
        THEN LET d == CHOOSE d \in matched : TRUE
             IN  (user_docs[coll] \ {d}) \cup {[d EXCEPT !.items = changed(d.items, change)]}
        ELSE IF upsert
        THEN user_docs[coll] \cup {Doc(user_id, key, changed(<<>>, change))}
        ELSE user_docs[coll]

\* a GET handler: the token check, the check of the query parameters (reject
\* is the status it answers, 0 when they pass), then find / find_one on coll
user_data_get(op, tok, coll, reject) ==
    LET auth == require_user_id(tok)
        request == [reject |-> reject]
    IN  /\ UNCHANGED <<foods, user_food_logs, nextLogId, today, user_docs, users, chat, pending, pending_registrations, cache>>
        /\ IF auth.err # 0 THEN resp' = Response(op, tok, request, auth.err, {"auth"}, NoData)
           ELSE IF reject # 0
           THEN resp' = Response(op, tok, request, reject, {"auth", "validate"}, NoData)
           ELSE resp' = Response(op, tok, request, 200, {"auth", "validate"} \cup Reads({coll}),
                                 [docs |-> find_docs(coll, auth.user_id, key_of(coll))])

\* a PUT / POST / DELETE handler: the token check, the check of the body
\* (reject is the status it answers, 0 when it passes), then update_one
user_data_put(op, tok, coll, key, reject, change, upsert) ==
    LET auth == require_user_id(tok)
        request == [reject |-> reject, date |-> key, change |-> change]
    IN  /\ UNCHANGED <<foods, user_food_logs, nextLogId, today, users, chat, pending, pending_registrations, cache>>
        /\ IF auth.err # 0
           THEN /\ resp' = Response(op, tok, request, auth.err, {"auth"}, NoData)
                /\ UNCHANGED user_docs
           ELSE IF reject # 0
           THEN /\ resp' = Response(op, tok, request, reject, {"auth", "validate"}, NoData)
                /\ UNCHANGED user_docs
           ELSE /\ \A d \in find_docs(coll, auth.user_id, key) :
                       Len(changed(d.items, change)) <= MaxItems
                /\ resp' = Response(op, tok, request, 200,
                                    {"auth", "validate"} \cup Writes({coll}), NoData)
                /\ user_docs' =
                       [user_docs EXCEPT ![coll] =
                           update_one(coll, auth.user_id, key, change, upsert)]

\* update_one(..., upsert=True) run by concurrent requests on a collection
\* whose index on (userId, date) is not unique (database_indexes.py:42-60):
\* the query and the insert of an upsert are two steps, and two upserts can
\* both find no document.  upsert_start is the handler up to the query: it
\* answers at once when it rejects the request or a document matches (which
\* is then updated atomically), and is left pending when none does.
MaxPending == 2

upsert_start(op, tok, coll, key, reject, change) ==
    LET auth == require_user_id(tok)
    IN  IF auth.err # 0 \/ reject # 0 \/ find_docs(coll, auth.user_id, key) # {}
        THEN user_data_put(op, tok, coll, key, reject, change, TRUE)
        ELSE /\ Cardinality(pending) < MaxPending
             /\ pending' = pending \cup {[op |-> op, tok |-> tok, coll |-> coll,
                                           key |-> key, change |-> change]}
             /\ UNCHANGED <<foods, user_food_logs, nextLogId, today, resp, user_docs,
                            users, chat, pending_registrations, cache>>

\* the insert of a pending upsert, and the handler's answer.  add_exercise
\* upserts an empty document and then pushes the exercise with a second
\* update_one, which takes one of the documents that match.
upsert_insert(p) ==
    LET user_id == require_user_id(p.tok).user_id
        matched == find_docs(p.coll, user_id, p.key)
        free == CHOOSE n \in 1..(Cardinality(matched) + 1) :
                    \A d \in matched : d.n # n
        first == IF p.op = "add_exercise" THEN <<>> ELSE changed(<<>>, p.change)
        inserted == [Doc(user_id, p.key, first) EXCEPT !.n = free]
    IN  /\ p \in pending
        /\ pending' = pending \ {p}
        /\ IF p.op = "add_exercise"
           THEN \E d \in matched \cup {inserted} :
                    /\ Len(changed(d.items, p.change)) <= MaxItems
                    /\ user_docs' =
                           [user_docs EXCEPT ![p.coll] =
                               ((@ \cup {inserted}) \ {d})
                                   \cup {[d EXCEPT !.items = changed(d.items, p.change)]}]
           ELSE user_docs' = [user_docs EXCEPT ![p.coll] = @ \cup {inserted}]
        /\ resp' = Response(p.op, p.tok,
                            [reject |-> 0, date |-> p.key, change |-> p.change], 200,
                            {"auth", "validate"} \cup Writes({p.coll}), NoData)
        /\ UNCHANGED <<foods, user_food_logs, nextLogId, today, users, chat, pending_registrations, cache>>

get_profile_photo(tok) == user_data_get("get_profile_photo", tok, "user_profiles", 0)
upload_profile_photo(tok, reject) ==
    user_data_put("upload_profile_photo", tok, "user_profiles", NoKey, reject, Keep, TRUE)
delete_profile_photo(tok) ==
    user_data_put("delete_profile_photo", tok, "user_profiles", NoKey, 0, Keep, FALSE)
remove_profile_photo(tok) ==
    user_data_put("remove_profile_photo", tok, "user_profiles", NoKey, 0, Keep, FALSE)
get_profile(tok) == user_data_get("get_profile", tok, "user_profiles", 0)
put_profile(tok) == user_data_put("put_profile", tok, "user_profiles", NoKey, 0, Keep, TRUE)
get_goals_today(tok) == user_data_get("get_goals_today", tok, "user_goals", 0)
put_goals_today(tok) ==
    user_data_put("put_goals_today", tok, "user_goals", NoKey, 0, Keep, TRUE)
get_meals_today(tok) == user_data_get("get_meals_today", tok, "daily_meals", 0)
save_meals_today(tok, meals) ==
    user_data_put("save_meals_today", tok, "daily_meals", TodayKey, 0, Set(meals), TRUE)
get_meals_by_date(tok, reject) ==
    user_data_get("get_meals_by_date", tok, "daily_meals", reject)
\* date: body.get('date') or today's key
add_meal_entry(tok, date, reject, meal) ==
    user_data_put("add_meal_entry", tok, "daily_meals", date, reject, Push(meal), TRUE)
get_meals_history(tok) == user_data_get("get_meals_history", tok, "daily_meals", 0)
save_activity_today(tok, reject, exercises) ==
    user_data_put("save_activity_today", tok, "daily_activity", TodayKey, reject,
                  Set(exercises), TRUE)
add_exercise(tok, reject, exercise) ==
    user_data_put("add_exercise", tok, "daily_activity", TodayKey, reject,
                  Push(exercise), TRUE)
update_water_intake(tok, reject) ==
    user_data_put("update_water_intake", tok, "daily_activity", TodayKey, reject, Keep, TRUE)
get_activity_history(tok) ==
    user_data_get("get_activity_history", tok, "daily_activity", 0)

\* the date parameter is required (400) and must be today (403); delete_one,
\* 404 when nothing was deleted
delete_meals_by_date(tok, reject) ==
    LET auth == require_user_id(tok)
        request == [reject |-> reject]
        matched == find_docs("daily_meals", auth.user_id, TodayKey)
        Reply(status, steps) ==
            /\ resp' = Response("delete_meals_by_date", tok, request, status, steps, NoData)
            /\ UNCHANGED user_docs
    IN  /\ UNCHANGED <<foods, user_food_logs, nextLogId, today, users, chat, pending, pending_registrations, cache>>
        /\ IF auth.err # 0 THEN Reply(auth.err, {"auth"})
           ELSE IF reject # 0 THEN Reply(reject, {"auth", "validate"})
           ELSE IF matched = {} THEN Reply(404, {"auth", "validate", "write:daily_meals"})
           ELSE /\ resp' = Response("delete_meals_by_date", tok, request, 200,
                                    {"auth", "validate", "write:daily_meals"}, NoData)
                /\ user_docs' = [user_docs EXCEPT !["daily_meals"] =
                                    @ \ {CHOOSE d \in matched : TRUE}]

\* find_one, then update_one when an exercise had its calories recalculated
\* (needs_update: a property of the stored exercises)
get_activity_today(tok, needs_update) ==
    LET auth == require_user_id(tok)
        request == [needs_update |-> needs_update]
        found == find_docs("daily_activity", auth.user_id, TodayKey)
    IN  /\ UNCHANGED <<foods, user_food_logs, nextLogId, today, user_docs, users, chat, pending, pending_registrations, cache>>
        /\ IF auth.err # 0
           THEN resp' = Response("get_activity_today", tok, request, auth.err, {"auth"}, NoData)
           ELSE resp' = Response("get_activity_today", tok, request, 200,
                                 {"auth", "read:daily_activity"}
                                    \cup (IF found # {} /\ needs_update
                                          THEN {"write:daily_activity"} ELSE {}),
                                 [docs |-> found])

\* find_one; 404 without a document, 400 for an index out of range, else
\* update_one with the exercise popped
delete_exercise(tok, exercise_index) ==
    LET auth == require_user_id(tok)
        request == [exercise_index |-> exercise_index]
        found == find_docs("daily_activity", auth.user_id, TodayKey)
        Reply(status, steps) ==
            /\ resp' = Response("delete_exercise", tok, request, status, steps, NoData)
            /\ UNCHANGED user_docs
    IN  /\ UNCHANGED <<foods, user_food_logs, nextLogId, today, users, chat, pending, pending_registrations, cache>>
        /\ IF auth.err # 0 THEN Reply(auth.err, {"auth"})
           ELSE IF found = {} THEN Reply(404, {"auth", "read:daily_activity"})
           ELSE LET doc == CHOOSE d \in found : TRUE
                    exercises == doc.items
                    popped == [i \in 1..(Len(exercises) - 1) |->
                                  IF i <= exercise_index THEN exercises[i]
                                  ELSE exercises[i + 1]]
                IN  IF exercise_index < 0 \/ exercise_index >= Len(exercises)
                    THEN Reply(400, {"auth", "read:daily_activity"})
                    ELSE /\ resp' = Response("delete_exercise", tok, request, 200,
                                             {"auth", "read:daily_activity",
                                              "write:daily_activity"}, NoData)
                         /\ user_docs' =
                                [user_docs EXCEPT !["daily_activity"] =
                                    update_one("daily_activity", auth.user_id, TodayKey,
                                               Set(popped), FALSE)]

----------------------------------------------------------------------------
(* routes/user_data.py: add_exercise with its body.  Under SpecExercise the  *)
(* items of a daily_activity document are the exercises themselves,          *)
(* [name, duration, caloriesBurned].                                         *)

\* str.strip() of a string of letters and spaces
Strip(s) ==
    LET i == SkipSpace(s, 1)
        last == {j \in 1..Len(s) : ~IsSpace(s[j])}
    IN  IF last = {} THEN <<>>
        ELSE SubSeq(s, i, CHOOSE j \in last : \A k \in last : k <= j)

\* MET values, in the order of the dict
met_values ==
    <<
      <<<<"r","u","n","n","i","n","g">>, Rat(115, 10)>>,
      <<<<"j","o","g","g","i","n","g">>, RInt(7)>>,
      <<<<"w","a","l","k","i","n","g">>, Rat(35, 10)>>,
      <<<<"c","y","c","l","i","n","g">>, RInt(8)>>,
      <<<<"s","w","i","m","m","i","n","g">>, RInt(8)>>,
      <<<<"r","o","w","i","n","g">>, RInt(7)>>,
      <<<<"w","e","i","g","h","t">>, RInt(6)>>,
      <<<<"l","i","f","t","i","n","g">>, RInt(6)>>,
      <<<<"b","e","n","c","h">>, RInt(6)>>,
      <<<<"s","q","u","a","t","s">>, Rat(55, 10)>>,
      <<<<"d","e","a","d","l","i","f","t">>, RInt(6)>>,
      <<<<"p","u","l","l">>, RInt(8)>>,
      <<<<"p","u","s","h">>, RInt(8)>>,
      <<<<"s","i","t">>, RInt(3)>>,
      <<<<"c","r","u","n","c","h">>, RInt(3)>>,
      <<<<"p","l","a","n","k">>, Rat(35, 10)>>,
      <<<<"b","u","r","p","e","e">>, RInt(10)>>,
      <<<<"j","u","m","p","i","n","g">>, RInt(8)>>,
      <<<<"y","o","g","a">>, RInt(3)>>,
      <<<<"p","i","l","a","t","e","s">>, RInt(3)>>,
      <<<<"s","t","r","e","t","c","h","i","n","g">>, Rat(25, 10)>>,
      <<<<"d","a","n","c","i","n","g">>, RInt(6)>>,
      <<<<"z","u","m","b","a">>, RInt(7)>>,
      <<<<"a","e","r","o","b","i","c","s">>, RInt(7)>>,
      <<<<"h","i","i","t">>, RInt(10)>>,
      <<<<"c","r","o","s","s","f","i","t">>, RInt(10)>>,
      <<<<"b","o","x","i","n","g">>, RInt(12)>>,
      <<<<"m","a","r","t","i","a","l">>, RInt(10)>>,
      <<<<"t","e","n","n","i","s">>, RInt(8)>>,
      <<<<"b","a","s","k","e","t","b","a","l","l">>, RInt(8)>>,
      <<<<"s","o","c","c","e","r">>, RInt(10)>>,
      <<<<"f","o","o","t","b","a","l","l">>, RInt(8)>>,
      <<<<"v","o","l","l","e","y","b","a","l","l">>, RInt(3)>>,
      <<<<"b","a","d","m","i","n","t","o","n">>, Rat(55, 10)>>,
      <<<<"h","i","k","i","n","g">>, RInt(6)>>,
      <<<<"c","l","i","m","b","i","n","g">>, RInt(8)>>,
      <<<<"s","k","a","t","i","n","g">>, RInt(7)>>,
      <<<<"s","k","i","i","n","g">>, RInt(7)>>,
      <<<<"e","l","l","i","p","t","i","c","a","l">>, RInt(7)>>,
      <<<<"t","r","e","a","d","m","i","l","l">>, RInt(7)>>,
      <<<<"s","t","a","i","r">>, RInt(9)>>,
      <<<<"k","e","t","t","l","e","b","e","l","l">>, RInt(8)>>,
      <<<<"d","u","m","b","b","e","l","l">>, RInt(6)>>,
      <<<<"r","e","s","i","s","t","a","n","c","e">>, RInt(6)>>,
      <<<<"c","i","r","c","u","i","t">>, RInt(8)>>
    >>

\* the value of the first key of met_values that the name contains, else 5.0
RECURSIVE met_from(_, _)
met_from(exercise_lower, i) ==
    IF i > Len(met_values) THEN RInt(5)
    ELSE IF Contains(exercise_lower, met_values[i][1]) THEN met_values[i][2]
    ELSE met_from(exercise_lower, i + 1)

\* _estimate_calories_fallback
estimate_calories_fallback(exercise_name, duration_minutes) ==
    Round1(RMul(RMul(met_from(Lower(exercise_name), 1), RInt(70)),
                RDiv(duration_minutes, RInt(60))))

ExerciseBody(name, duration, caloriesBurned) ==
    [name |-> name, duration |-> duration, caloriesBurned |-> caloriesBurned]

JZero == JNum(RInt(0))

\* the exercise add_exercise builds from a body whose numbers float() accepts
exercise_of(data) ==
    LET exercise_name == Strip(data.name)
        duration == Float(Get(data.duration, JZero))
        calories_burned == Float(Get(data.caloriesBurned, JZero))
    IN  [name |-> exercise_name,
         duration |-> duration,
         caloriesBurned |->
             IF RLe(calories_burned, RInt(0)) /\ exercise_name # <<>> /\ RPos(duration)
             THEN estimate_calories_fallback(exercise_name, duration)
             ELSE calories_burned]

\* the status add_exercise answers to an authenticated request: 500 when
\* float() raises, 400 without a name, else 200
add_exercise_status(data) ==
    IF ~FloatOk(Get(data.duration, JZero)) \/ ~FloatOk(Get(data.caloriesBurned, JZero))
    THEN 500
    ELSE IF exercise_of(data).name = <<>> THEN 400
    ELSE 200

\* add_exercise called with the body data
add_exercise_request(tok, data) ==
    LET auth == require_user_id(tok)
        status == add_exercise_status(data)
        change == Push(exercise_of(data))
    IN  /\ UNCHANGED <<foods, user_food_logs, nextLogId, today, users, chat, pending,
                       pending_registrations, cache>>
        /\ IF auth.err # 0
           THEN /\ resp' = Response("add_exercise", tok, data, auth.err, {"auth"}, NoData)
                /\ UNCHANGED user_docs
           ELSE IF status # 200
           THEN /\ resp' = Response("add_exercise", tok, data, status,
                                    {"auth", "validate"}, NoData)
                /\ UNCHANGED user_docs
           ELSE /\ \A d \in find_docs("daily_activity", auth.user_id, TodayKey) :
                       Len(changed(d.items, change)) <= MaxItems
                /\ resp' = Response("add_exercise", tok, data, 200,
                                    {"auth", "validate", "write:daily_activity"},
                                    [exercise |-> exercise_of(data)])
                /\ user_docs' =
                       [user_docs EXCEPT !["daily_activity"] =
                           update_one("daily_activity", auth.user_id, TodayKey, change, TRUE)]

\* get_activity_today: an exercise with its calories recalculated when it
\* has none, a name and a positive duration
recalculated(exercise) ==
    LET calculated_calories ==
            estimate_calories_fallback(Strip(exercise.name), exercise.duration)
    IN  IF /\ RLe(exercise.caloriesBurned, RInt(0))
           /\ Strip(exercise.name) # <<>>
           /\ RPos(exercise.duration)
           /\ RPos(calculated_calories)
        THEN [exercise EXCEPT !.caloriesBurned = calculated_calories]
        ELSE exercise

\* exercises.pop(exercise_index), exercise_index counted from 0
popped(exercises, exercise_index) ==
    [i \in 1..(Len(exercises) - 1) |->
        IF i <= exercise_index THEN exercises[i] ELSE exercises[i + 1]]

\* the requests that may be between their read and their write at one time
MaxRewrites == 1

\* A request that has read the exercises of today's document and has yet to
\* write the whole list back: read is the list it found, index the position
\* it pops (-1 in get_activity_today), change the $set it will send.
Rewrite(op, tok, read, index, exercises) ==
    [op |-> op, tok |-> tok, coll |-> "daily_activity", key |-> TodayKey,
     change |-> Set(exercises), read |-> read, index |-> index]

\* get_activity_today up to its update_one: it answers at once when no
\* exercise was recalculated
get_activity_today_find(tok) ==
    LET auth == require_user_id(tok)
        found == find_docs("daily_activity", auth.user_id, TodayKey)
        doc == CHOOSE d \in found : TRUE
        exercises == [i \in 1..Len(doc.items) |-> recalculated(doc.items[i])]
        Reply(status, steps, data) ==
            /\ resp' = Response("get_activity_today", tok, <<>>, status, steps, data)
            /\ UNCHANGED pending
    IN  /\ UNCHANGED <<foods, user_food_logs, nextLogId, today, user_docs, users, chat,
                       pending_registrations, cache>>
        /\ IF auth.err # 0 THEN Reply(auth.err, {"auth"}, NoData)
           ELSE IF found = {} THEN Reply(200, {"auth", "read:daily_activity"},
                                         [exercises |-> <<>>])
           ELSE IF exercises = doc.items
           THEN Reply(200, {"auth", "read:daily_activity"}, [exercises |-> exercises])
           ELSE /\ Cardinality(pending) < MaxRewrites
                /\ pending' = pending \cup
                       {Rewrite("get_activity_today", tok, doc.items, -1, exercises)}
                /\ UNCHANGED resp

\* delete_exercise up to its update_one
delete_exercise_find(tok, exercise_index) ==
    LET auth == require_user_id(tok)
        request == [exercise_index |-> exercise_index]
        found == find_docs("daily_activity", auth.user_id, TodayKey)
        doc == CHOOSE d \in found : TRUE
        Reply(status, steps) ==
            /\ resp' = Response("delete_exercise", tok, request, status, steps, NoData)
            /\ UNCHANGED pending
    IN  /\ UNCHANGED <<foods, user_food_logs, nextLogId, today, user_docs, users, chat,
                       pending_registrations, cache>>
        /\ IF auth.err # 0 THEN Reply(auth.err, {"auth"})
           ELSE IF found = {} THEN Reply(404, {"auth", "read:daily_activity"})
           ELSE IF exercise_index < 0 \/ exercise_index >= Len(doc.items)
           THEN Reply(400, {"auth", "read:daily_activity"})
           ELSE /\ Cardinality(pending) < MaxRewrites
                /\ pending' = pending \cup
                       {Rewrite("delete_exercise", tok, doc.items, exercise_index,
                                popped(doc.items, exercise_index))}
                /\ UNCHANGED resp

\* the update_one of a request that read the exercises, and its answer
activity_update_one(p) ==
    /\ p \in pending
    /\ pending' = pending \ {p}
    /\ user_docs' =
           [user_docs EXCEPT ![p.coll] =
               update_one(p.coll, require_user_id(p.tok).user_id, p.key, p.change, FALSE)]
    /\ resp' = Response(p.op, p.tok,
                        IF p.op = "delete_exercise" THEN [exercise_index |-> p.index]
                        ELSE <<>>,
                        200, {"auth", "read:daily_activity", "write:daily_activity"},
                        IF p.op = "delete_exercise" THEN NoData
                        ELSE [exercises |-> p.change.items])
    /\ UNCHANGED <<foods, user_food_logs, nextLogId, today, users, chat, pending_registrations, cache>>

----------------------------------------------------------------------------
(* routes/user_data.py: the weekly, monthly and yearly reports.  Of the     *)
(* fields of a report, calories (never rounded), mealsCount, daysTracked    *)
(* and caloriesBurned (rounded to one decimal per sub-period) are kept; the *)
(* other nutrients follow calories, exerciseDuration and waterIntake follow *)
(* caloriesBurned.                                                          *)

\* sum(m.get('totalCalories', 0) for m in meals)
RECURSIVE SumSeq(_)
SumSeq(items) == IF items = <<>> THEN 0 ELSE items[1] + SumSeq(Tail(items))

\* coll.find({'userId': user_id, 'date': {'$gte': start, '$lte': end}})
find_range(coll, user_id, start_date, end_date) ==
    {d \in user_docs[coll] :
        /\ d.userId = user_id
        /\ DateLe(FromOrdinal(start_date), d.date)
        /\ DateLe(d.date, FromOrdinal(end_date))}

\* the sum over a set of documents of the sum of their items
RECURSIVE SumItems(_)
SumItems(docs) ==
    IF docs = {} THEN 0
    ELSE LET d == CHOOSE d \in docs : TRUE
         IN  SumSeq(d.items) + SumItems(docs \ {d})

\* the sum over a set of documents of len(meals)
RECURSIVE SumLen(_)
SumLen(docs) ==
    IF docs = {} THEN 0
    ELSE LET d == CHOOSE d \in docs : TRUE
         IN  Len(d.items) + SumLen(docs \ {d})

\* the sum of a field over the entries of report_data
RECURSIVE SumData(_, _)
SumData(report_data, k) ==
    IF report_data = <<>> THEN 0
    ELSE report_data[1][k] + SumData(Tail(report_data), k)

RECURSIVE SumBurned(_)
SumBurned(report_data) ==
    IF report_data = <<>> THEN RInt(0)
    ELSE RAdd(report_data[1].caloriesBurned, SumBurned(Tail(report_data)))

\* one entry of dailyData, weeklyData or monthlyData
SubPeriod(key, meals_docs, activity_docs) ==
    [key |-> key,
     calories |-> SumItems(meals_docs),
     mealsCount |-> SumLen(meals_docs),
     daysTracked |-> Cardinality(meals_docs),
     caloriesBurned |-> Round1(RInt(SumItems(activity_docs)))]

ReportData(period, start_date, end_date, report_data, days_tracked) ==
    [period |-> period,
     startDate |-> FromOrdinal(start_date),
     endDate |-> FromOrdinal(end_date),
     data |-> report_data,
     totals |-> [calories |-> SumData(report_data, "calories"),
                 caloriesBurned |-> Round1(SumBurned(report_data))],
     daysTracked |-> days_tracked]

\* next((d for d in docs if d.get('date') == date_str), None), as a set
first_of(docs, date_str) ==
    LET on_date == {d \in docs : d.date = date_str}
    IN  IF on_date = {} THEN {} ELSE {CHOOSE d \in on_date : TRUE}

weekly_report(user_id) ==
    LET end_date == today
        start_date == end_date - 6
        meals_docs == find_range("daily_meals", user_id, start_date, end_date)
        activity_docs == find_range("daily_activity", user_id, start_date, end_date)
        report_data ==
            [n \in 1..7 |->
                LET date_str == FromOrdinal(start_date + (n - 1))
                IN  SubPeriod(date_str, first_of(meals_docs, date_str),
                              first_of(activity_docs, date_str))]
        days_with_data == Cardinality({n \in 1..7 : report_data[n].mealsCount > 0})
    IN  ReportData("weekly", start_date, end_date, report_data, days_with_data)

\* (date_obj - start_date).days // 7
week_num(d, start_date) == (ToOrdinal(d.date) - start_date) \div 7

monthly_report(user_id) ==
    LET end_date == today
        start_date == end_date - 29
        meals_docs == find_range("daily_meals", user_id, start_date, end_date)
        activity_docs == find_range("daily_activity", user_id, start_date, end_date)
        weekly_data(week) ==
            SubPeriod(week + 1,
                      {d \in meals_docs : week_num(d, start_date) = week},
                      {d \in activity_docs : week_num(d, start_date) = week})
        report_data == [n \in 1..4 |-> weekly_data(n - 1)]
    IN  ReportData("monthly", start_date, end_date, report_data,
                   SumData(report_data, "daysTracked"))

\* datetime(end_date.year, end_date.month, 1) - timedelta(days=30 * (11 - i))
month_date(end_date, i) ==
    LET end == FromOrdinal(end_date)
    IN  FromOrdinal(ToOrdinal(<<end[1], end[2], 1>>) - 30 * (11 - i))

yearly_report(user_id) ==
    LET end_date == today
        start_date == end_date - 364
        meals_docs == find_range("daily_meals", user_id, start_date, end_date)
        activity_docs == find_range("daily_activity", user_id, start_date, end_date)
        monthly_data(month_key) ==
            SubPeriod(month_key,
                      {d \in meals_docs : MonthKey(d.date) = month_key},
                      {d \in activity_docs : MonthKey(d.date) = month_key})
        report_data == [n \in 1..12 |-> monthly_data(MonthKey(month_date(end_date, n - 1)))]
    IN  ReportData("yearly", start_date, end_date, report_data,
                   SumData(report_data, "daysTracked"))

user_data_report(op, tok, data) ==
    LET auth == require_user_id(tok)
    IN  /\ UNCHANGED <<foods, user_food_logs, nextLogId, today, user_docs, users, chat, pending, pending_registrations, cache>>
        /\ IF auth.err # 0 THEN resp' = Response(op, tok, <<>>, auth.err, {"auth"}, NoData)
           ELSE resp' = Response(op, tok, <<>>, 200,
                                 {"auth"} \cup Reads({"daily_meals", "daily_activity"}),
                                 data)

get_weekly_report(tok) ==
    user_data_report("get_weekly_report", tok, weekly_report(require_user_id(tok).user_id))
get_monthly_report(tok) ==
    user_data_report("get_monthly_report", tok, monthly_report(require_user_id(tok).user_id))
get_yearly_report(tok) ==
    user_data_report("get_yearly_report", tok, yearly_report(require_user_id(tok).user_id))

----------------------------------------------------------------------------
(* routes/admin.py.  users maps the id of each account to its email,        *)
(* is_admin and email_verified.  The collections profiles, daily_goals,     *)
(* user_data, user_activity and admin_logs, which no other handler here     *)
(* writes, appear in the steps only.                                        *)

ADMIN_EMAIL == "youssefdahdah33@gmail.com"

UnknownUserId == "u9"        \* a well-formed ObjectId of no user
BadUserId == "not-an-id"     \* ObjectId() raises

\* str(ObjectId(user_id)) of a well-formed id: ObjectId reads the 24
\* hexadecimal digits in either case (bytes.fromhex), str() writes them in
\* lower case.  "U1" and "U2" stand for the ids of u1 and u2 written in
\* upper case.
ObjectId(user_id) ==
    CASE user_id = "U1" -> "u1"
      [] user_id = "U2" -> "u2"
      [] OTHER -> user_id

\* bcrypt: the stored hash of a password
hash_password(password) == [bcrypt |-> password]

P_old == <<"O","l","d","P","a","s","s","1">>

\* reset_code is the code reset_code_hash holds (0 when the field is
\* missing), reset_expired whether reset_code_expires_at has passed;
\* spent_codes is history, no field of the document: the codes a
\* reset_password has succeeded with since the last forgot_password
User(email, is_admin) ==
    [email |-> email, is_admin |-> is_admin, email_verified |-> TRUE, name |-> "Existing User",
     password |-> hash_password(P_old), reset_code |-> 0, reset_expired |-> FALSE,
     spent_codes |-> {}]

\* require_admin: (user_id, error) and the stages it went through
require_admin(tok) ==
    LET decoded == verify_token(tok)
        Deny(status, steps) == [admin_id |-> NoUser, err |-> status, steps |-> steps]
    IN  IF tok.kind \in {"none", "malformed"} THEN Deny(401, {"auth"})
        ELSE IF ~decoded.ok THEN Deny(401, {"auth"})
        \* ObjectId(None) is a fresh id: no user has it
        ELSE IF decoded.userId \notin DOMAIN users THEN Deny(404, {"auth", "read:users"})
        ELSE IF ~users[decoded.userId].is_admin THEN Deny(403, {"auth", "read:users"})
        ELSE [admin_id |-> decoded.userId, err |-> 0, steps |-> {"auth", "read:users"}]

\* ObjectId(user_id), then users.find_one({'_id': oid}): the status it ends with
find_user(user_id) ==
    IF user_id = BadUserId THEN 400
    ELSE IF ObjectId(user_id) \notin DOMAIN users THEN 404
    ELSE 0

\* delete_many({'user_id': user_id}) on user_food_logs, of one day when day # 0
logs_without(user_id, day) ==
    LET kept == {i \in DOMAIN user_food_logs :
                    ~(/\ user_food_logs[i].user_id = user_id
                      /\ (day = 0 \/ user_food_logs[i].logged_at = day))}
    IN  [i \in kept |-> user_food_logs[i]]

\* delete_many({'userId': user_id}) on a collection, of one date when given
docs_without(coll, user_id, date) ==
    {d \in user_docs[coll] : ~(d.userId = user_id /\ (date = NoKey \/ d.date = date))}

users_without(user_id) == [u \in DOMAIN users \ {user_id} |-> users[u]]

\* a handler that only reads: get_all_users, get_admin_stats, get_admin_logs
admin_get(op, tok, reads) ==
    LET admin == require_admin(tok)
    IN  /\ UNCHANGED <<foods, user_food_logs, nextLogId, today, user_docs, users, chat, pending, pending_registrations, cache>>
        /\ IF admin.err # 0 THEN resp' = Response(op, tok, <<>>, admin.err, admin.steps, NoData)
           ELSE resp' = Response(op, tok, <<>>, 200, admin.steps \cup Reads(reads), NoData)

get_all_users(tok) == admin_get("get_all_users", tok, {"users"})
get_admin_stats(tok) ==
    admin_get("get_admin_stats", tok, {"users", "daily_meals", "daily_activity", "user_food_logs"})
get_admin_logs(tok) == admin_get("get_admin_logs", tok, {"admin_logs", "users"})

get_user(tok, user_id) ==
    LET admin == require_admin(tok)
        request == [user_id |-> user_id]
        Reply(status, steps) == resp' = Response("get_user", tok, request, status, steps, NoData)
    IN  /\ UNCHANGED <<foods, user_food_logs, nextLogId, today, user_docs, users, chat, pending, pending_registrations, cache>>
        /\ IF admin.err # 0 THEN Reply(admin.err, admin.steps)
           ELSE IF find_user(user_id) # 0 THEN Reply(find_user(user_id), admin.steps)
           ELSE Reply(200, admin.steps \cup Reads({"profiles", "daily_meals", "daily_activity",
                                                   "daily_goals", "user_food_logs"}))

toggle_admin_status(tok, user_id, is_admin) ==
    LET admin == require_admin(tok)
        request == [user_id |-> user_id, is_admin |-> is_admin]
        Reply(status, steps) ==
            /\ resp' = Response("toggle_admin_status", tok, request, status, steps, NoData)
            /\ UNCHANGED users
    IN  /\ UNCHANGED <<foods, user_food_logs, nextLogId, today, user_docs, chat, pending, pending_registrations, cache>>
        /\ IF admin.err # 0 THEN Reply(admin.err, admin.steps)
           ELSE IF user_id = admin.admin_id /\ ~is_admin THEN Reply(400, admin.steps)
           ELSE IF find_user(user_id) # 0 THEN Reply(find_user(user_id), admin.steps)
           ELSE IF users[ObjectId(user_id)].email = ADMIN_EMAIL /\ ~is_admin
           THEN Reply(400, admin.steps)
           ELSE /\ users' = [users EXCEPT ![ObjectId(user_id)].is_admin = is_admin]
                /\ resp' = Response("toggle_admin_status", tok, request, 200,
                                    admin.steps \cup Writes({"users", "admin_logs"}), NoData)

delete_user(tok, user_id) ==
    LET admin == require_admin(tok)
        request == [user_id |-> user_id]
        Reply(status, steps) ==
            /\ resp' = Response("delete_user", tok, request, status, steps, NoData)
            /\ UNCHANGED <<user_food_logs, users>>
    IN  /\ UNCHANGED <<foods, nextLogId, today, user_docs, chat, pending, pending_registrations, cache>>
        /\ IF admin.err # 0 THEN Reply(admin.err, admin.steps)
           ELSE IF user_id = admin.admin_id THEN Reply(400, admin.steps)
           ELSE IF find_user(user_id) # 0 THEN Reply(find_user(user_id), admin.steps)
           ELSE IF users[ObjectId(user_id)].email = ADMIN_EMAIL THEN Reply(400, admin.steps)
           ELSE /\ user_food_logs' = logs_without(ObjectId(user_id), 0)
                /\ users' = users_without(ObjectId(user_id))
                /\ resp' = Response("delete_user", tok, request, 200,
                                    admin.steps \cup Writes({"user_data", "user_food_logs",
                                                             "user_activity", "users",
                                                             "admin_logs"}), NoData)

Categories == {"meals", "food_logs", "activity", "goals", "all"}

\* category: one of Categories, or "" when the parameter is absent;
\* date_filter: a 'YYYY-MM-DD' key, or NoKey when the parameter is absent
delete_user_history(tok, user_id, category, date_filter) ==
    LET admin == require_admin(tok)
        request == [user_id |-> user_id, category |-> category, date_filter |-> date_filter]
        Reply(status, steps) ==
            /\ resp' = Response("delete_user_history", tok, request, status, steps, NoData)
            /\ UNCHANGED <<user_food_logs, user_docs>>
        user_id_str == ObjectId(user_id)
        day == IF date_filter = NoKey THEN 0 ELSE ToOrdinal(date_filter)
        meals == category \in {"meals", "all"}
        food_logs == category \in {"food_logs", "all"}
        activity == category \in {"activity", "all"}
        goals == category \in {"goals", "all"}
    IN  /\ UNCHANGED <<foods, nextLogId, today, users, chat, pending, pending_registrations, cache>>
        /\ IF admin.err # 0 THEN Reply(admin.err, admin.steps)
           ELSE IF find_user(user_id) # 0 THEN Reply(find_user(user_id), admin.steps)
           ELSE /\ user_docs' =
                       [user_docs EXCEPT
                           !["daily_meals"] =
                               IF meals THEN docs_without("daily_meals", user_id_str, date_filter)
                               ELSE @,
                           !["daily_activity"] =
                               IF activity THEN docs_without("daily_activity", user_id_str, date_filter)
                               ELSE @]
                /\ user_food_logs' =
                       IF food_logs THEN logs_without(user_id_str, day) ELSE user_food_logs
                /\ resp' = Response("delete_user_history", tok, request, 200,
                                    admin.steps
                                      \cup Writes((IF meals THEN {"daily_meals"} ELSE {})
                                          \cup (IF food_logs THEN {"user_food_logs"} ELSE {})
                                          \cup (IF activity THEN {"daily_activity"} ELSE {})
                                          \cup (IF goals THEN {"daily_goals"} ELSE {})
                                          \cup (IF meals /\ date_filter = NoKey
                                                THEN {"user_data"} ELSE {})
                                          \cup {"admin_logs"}), NoData)

BulkActions == {"delete", "verify", "unverify", "promote", "demote"}

\* the loop body of bulk_user_operations for one user id: the collections
\* (users, user_food_logs, user_docs) afterwards
bulk_one(admin_id, user_id, action, db) ==
    LET user_id_str == ObjectId(user_id)
    IN
    IF user_id = admin_id /\ action \in {"delete", "demote"} THEN db
    ELSE IF user_id = BadUserId \/ user_id_str \notin DOMAIN db.users THEN db
    ELSE IF db.users[user_id_str].email = ADMIN_EMAIL /\ action \in {"delete", "demote"} THEN db
    ELSE CASE action = "delete" ->
                [users |-> [u \in DOMAIN db.users \ {user_id_str} |-> db.users[u]],
                 user_food_logs |->
                     [i \in {i \in DOMAIN db.user_food_logs :
                                db.user_food_logs[i].user_id # user_id_str} |-> db.user_food_logs[i]],
                 user_docs |->
                     [db.user_docs EXCEPT
                         !["daily_meals"] = {d \in @ : d.userId # user_id_str},
                         !["daily_activity"] = {d \in @ : d.userId # user_id_str}]]
           [] action = "verify" ->
                [db EXCEPT !.users = [@ EXCEPT ![user_id_str].email_verified = TRUE]]
           [] action = "unverify" ->
                [db EXCEPT !.users = [@ EXCEPT ![user_id_str].email_verified = FALSE]]
           [] action = "promote" ->
                [db EXCEPT !.users = [@ EXCEPT ![user_id_str].is_admin = TRUE]]
           [] OTHER ->
                [db EXCEPT !.users = [@ EXCEPT ![user_id_str].is_admin = FALSE]]

RECURSIVE bulk_all(_, _, _, _)
bulk_all(admin_id, user_ids, action, db) ==
    IF user_ids = <<>> THEN db
    ELSE bulk_all(admin_id, Tail(user_ids), action,
                  bulk_one(admin_id, user_ids[1], action, db))

\* action: one of BulkActions, or "" for a missing or unknown action
bulk_user_operations(tok, user_ids, action) ==
    LET admin == require_admin(tok)
        request == [user_ids |-> user_ids, action |-> action]
        Reply(status, steps) ==
            /\ resp' = Response("bulk_user_operations", tok, request, status, steps, NoData)
            /\ UNCHANGED <<user_food_logs, user_docs, users>>
        db == bulk_all(admin.admin_id, user_ids, action,
                       [users |-> users, user_food_logs |-> user_food_logs,
                        user_docs |-> user_docs])
    IN  /\ UNCHANGED <<foods, nextLogId, today, chat, pending, pending_registrations, cache>>
        /\ IF admin.err # 0 THEN Reply(admin.err, admin.steps)
           ELSE IF user_ids = <<>> THEN Reply(400, admin.steps)
           ELSE IF action \notin BulkActions THEN Reply(400, admin.steps)
           ELSE /\ users' = db.users
                /\ user_food_logs' = db.user_food_logs
                /\ user_docs' = db.user_docs
                /\ resp' = Response("bulk_user_operations", tok, request, 200,
                                    admin.steps
                                      \cup Writes(IF action = "delete"
                                                  THEN {"users", "user_food_logs", "daily_meals",
                                                        "daily_activity", "admin_logs"}
                                                  ELSE {"users", "admin_logs"}), NoData)

----------------------------------------------------------------------------
(* routes/chat.py: chat_message, run by concurrent requests.  Time is       *)
(* counted in ticks of half a second.  chat holds the clock (time.time()),  *)
(* _last_request_time, the holder of _request_lock (0 when free), whether   *)
(* CHAT_API_KEY_BACKUP is configured, the position and the local variables  *)
(* of each request, and the upstream HTTP calls sent so far, in order.      *)

CHAT_MIN_INTERVAL == 4       \* float(os.getenv('CHAT_MIN_INTERVAL', '2')): 2 s
backup_key_sleep == 1        \* time.sleep(0.5)
more_attempts == 3 + 1
max_attempts == 3

ChatRequests == {1, 2}

\* the request has not arrived yet
IdleRequest ==
    [pc |-> "idle", now |-> 0, wait_seconds |-> 0, admitted_at |-> 0,
     key_index |-> 0, attempt |-> 0, wake |-> 0, retry_after |-> 0,
     status |-> 0, sent |-> 0]

\* with _request_lock: the lock can be taken
can_acquire_always(lock) == TRUE
can_acquire(lock) == lock = 0

\* time.sleep(0.5) before the backup key is tried
no_sleep(clock) == clock
sleep_before_backup(clock) == clock + backup_key_sleep

RECURSIVE Pow2(_)
Pow2(n) == IF n = 0 THEN 1 ELSE 2 * Pow2(n - 1)

Max(a, b) == IF a >= b THEN a ELSE b

\* retry_after if retry_after and retry_after > 0 else max(min_interval, 2 ** attempt)
retry_wait(retry_after, attempt) ==
    IF retry_after > 0 THEN retry_after ELSE Max(CHAT_MIN_INTERVAL, 2 * Pow2(attempt))

\* int(retry_after) if retry_after and retry_after > 0 else int(max(min_interval, 60)),
\* in ticks: int() cuts the half second off
final_wait(retry_after) ==
    IF retry_after > 0 THEN 2 * (retry_after \div 2) ELSE 2 * Max(CHAT_MIN_INTERVAL \div 2, 60)

ChatStep(r, request, last, lock, calls) ==
    /\ chat' = [chat EXCEPT !.requests[r] = request,
                            !.last_request_time = last,
                            !.lock = lock,
                            !.calls = calls]
    /\ UNCHANGED <<foods, user_food_logs, nextLogId, today, resp, user_docs, users, pending, pending_registrations, cache>>

\* time passes
Tick ==
    /\ chat' = [chat EXCEPT !.clock = @ + 1]
    /\ UNCHANGED <<foods, user_food_logs, nextLogId, today, resp, user_docs, users, pending, pending_registrations, cache>>

\* the request arrives: 400 without a message, else on to the limiter
chat_arrive(r, has_message) ==
    LET q == chat.requests[r]
    IN  /\ q.pc = "idle"
        /\ ChatStep(r, IF has_message THEN [q EXCEPT !.pc = "limiter"]
                       ELSE [q EXCEPT !.pc = "done", !.status = 400],
                    chat.last_request_time, chat.lock, chat.calls)

\* with _request_lock: now = time.time(); wait_seconds = ...
chat_lock(r) ==
    LET q == chat.requests[r]
    IN  /\ q.pc = "limiter"
        /\ can_acquire(chat.lock)
        /\ ChatStep(r, [q EXCEPT !.pc = "locked", !.now = chat.clock,
                                 !.wait_seconds =
                                     (chat.last_request_time + CHAT_MIN_INTERVAL) - chat.clock],
                    chat.last_request_time, r, chat.calls)

\* if wait_seconds > 0: return 429; else _last_request_time = time.time();
\* either way the lock is released
chat_limit(r) ==
    LET q == chat.requests[r]
    IN  /\ q.pc = "locked"
        /\ IF q.wait_seconds > 0
           THEN ChatStep(r, [q EXCEPT !.pc = "done", !.status = 429],
                         chat.last_request_time, 0, chat.calls)
           ELSE ChatStep(r, [q EXCEPT !.pc = "send", !.admitted_at = chat.clock,
                                      !.wake = chat.clock],
                         chat.clock, 0, chat.calls)

Outcomes == {"ok", "401", "429", "500", "URLError"}

\* one urlopen call and what the loops do with its outcome
chat_send(r, outcome, retry_after) ==
    LET q == chat.requests[r]
        call == [t |-> chat.clock, request |-> r, key_index |-> q.key_index,
                 attempt |-> q.attempt, outcome |-> outcome, retry_after |-> retry_after]
        calls == Append(chat.calls, call)
        sent == [q EXCEPT !.sent = @ + 1]
        try_backup == q.key_index = 0 /\ chat.backup
        Backup == ChatStep(r, [sent EXCEPT !.key_index = 1, !.attempt = 0,
                                          !.wake = sleep_before_backup(chat.clock)],
                           chat.last_request_time, chat.lock, calls)
        Done(status) == ChatStep(r, [sent EXCEPT !.pc = "done", !.status = status],
                                 chat.last_request_time, chat.lock, calls)
    IN  /\ q.pc = "send"
        /\ chat.clock >= q.wake
        /\ CASE outcome = "ok" -> Done(200)
             [] outcome = "401" -> IF try_backup THEN Backup ELSE Done(502)
             [] outcome = "429" ->
                    IF try_backup /\ q.attempt = 0 THEN Backup
                    ELSE ChatStep(r, [sent EXCEPT !.pc = "backoff",
                                                  !.wait_seconds =
                                                      retry_wait(retry_after, q.attempt),
                                                  !.retry_after = retry_after],
                                  chat.last_request_time, chat.lock, calls)
             [] outcome = "500" -> IF try_backup THEN Backup ELSE Done(500)
             [] outcome = "400" -> Done(400)
             [] OTHER ->
                    IF try_backup THEN Backup
                    ELSE IF q.attempt < max_attempts - 1
                    THEN ChatStep(r, [sent EXCEPT !.attempt = @ + 1,
                                                  !.wake = chat.clock + 2 * (1 + q.attempt)],
                                  chat.last_request_time, chat.lock, calls)
                    ELSE Done(502)

\* after an upstream 429: with _request_lock: _last_request_time =
\* time.time() + wait_seconds; then sleep and retry, or raise
chat_backoff(r) ==
    LET q == chat.requests[r]
    IN  /\ q.pc = "backoff"
        /\ can_acquire(chat.lock)
        /\ IF q.attempt < max_attempts - 1
           THEN ChatStep(r, [q EXCEPT !.pc = "send", !.attempt = @ + 1,
                                      !.wake = chat.clock + q.wait_seconds],
                         chat.clock + q.wait_seconds, chat.lock, chat.calls)
           ELSE ChatStep(r, [q EXCEPT !.pc = "raised"],
                         chat.clock + q.wait_seconds, chat.lock, chat.calls)

\* except HTTPError, status 429: with _request_lock: _last_request_time =
\* time.time() + wait_seconds; return 429
chat_rate_limited(r) ==
    LET q == chat.requests[r]
    IN  /\ q.pc = "raised"
        /\ can_acquire(chat.lock)
        /\ ChatStep(r, [q EXCEPT !.pc = "done", !.status = 429],
                    chat.clock + final_wait(q.retry_after), chat.lock, chat.calls)

----------------------------------------------------------------------------
(* routes/vision.py: analyze_photo.  The upstream answers each HTTP call    *)
(* with a result, an HTTP error or a network error; a request names what    *)
(* it answers to the primary key, to the backup key, and to every call for  *)
(* a fallback model.                                                        *)

VisionOutcomes == {"ok", "400", "401", "429", "503", "URLError"}

\* e.code of an HTTPError
Code(outcome) ==
    CASE outcome = "400" -> 400
      [] outcome = "401" -> 401
      [] outcome = "429" -> 429
      [] outcome = "503" -> 503
      [] OTHER -> 0

IsHTTPError(outcome) == Code(outcome) # 0

\* what the model's answer holds: a food analysis, "not a food image", text
\* that is no JSON, or nothing
VisionContents == {"food", "not_food", "invalid", "empty"}

VisionRequest(file, api_key, gpt5, first, second, fallback, has_body, content) ==
    [file |-> file, api_key |-> api_key, gpt5 |-> gpt5, first |-> first,
     second |-> second, fallback |-> fallback, has_body |-> has_body,
     content |-> content]

\* lines 197-283, the loop over the keys for the primary model: "result",
\* "fallback" (break with no result, or a 429 seen), or the exception raised
first_attempt(v, backup) ==
    LET Last(outcome, saw_429) ==
            IF outcome = "ok"
            THEN [go |-> IF saw_429 THEN "fallback" ELSE "result", code |-> 0]
            ELSE IF outcome = "URLError" THEN [go |-> "URLError", code |-> 0]
            ELSE IF outcome = "429" THEN [go |-> "fallback", code |-> 429]
            ELSE IF outcome = "400" /\ v.gpt5 THEN [go |-> "fallback", code |-> 400]
            ELSE [go |-> "HTTPError", code |-> Code(outcome)]
    IN  IF backup /\ v.first \in {"401", "429", "URLError"}
        THEN Last(v.second, v.first = "429")
        ELSE Last(v.first, FALSE)

\* lines 294-371, the fallback models, every call answered alike: the result,
\* or last_error_code (0 for none)
fallback_attempt(v) ==
    IF v.fallback = "ok" THEN [go |-> "result", code |-> 0]
    ELSE [go |-> "none", code |-> Code(v.fallback)]

\* lines 457-551: what is made of the upstream's answer
vision_result_status(content) ==
    CASE content = "food" -> 200
      [] content = "not_food" -> 400
      [] OTHER -> 502

\* lines 373-454 and 553-616: the status answered for an upstream HTTP error
vision_error_status(code) == code

analyze_photo_status(v, backup) ==
    LET first == first_attempt(v, backup)
        second == fallback_attempt(v)
    IN  IF ~v.file THEN 400
        ELSE IF ~v.api_key THEN 500
        ELSE IF first.go = "result" THEN vision_result_status(v.content)
        ELSE IF first.go = "HTTPError" THEN vision_error_status(first.code)
        ELSE IF first.go = "URLError" THEN 502
        ELSE IF second.go = "result" THEN vision_result_status(v.content)
        ELSE IF second.code # 0 /\ v.has_body THEN vision_error_status(second.code)
        \* raise urllib_error.URLError(...), caught at line 617
        ELSE 502

\* the upstream calls failed and no result was obtained
upstream_failed(v, backup) ==
    /\ v.file /\ v.api_key
    /\ first_attempt(v, backup).go # "result"
    /\ (first_attempt(v, backup).go = "fallback" => fallback_attempt(v).go # "result")

\* one urlopen call: the model asked for, the key used, the upstream's answer
VisionCall(model, key_index, outcome) ==
    [model |-> model, key_index |-> key_index, outcome |-> outcome]

fallback_models == <<"fallback_model", "gemini">>

\* lines 200-283: the calls of the loop over the keys for the primary model
first_calls(v, backup) ==
    <<VisionCall("primary_model", 0, v.first)>>
        \o (IF backup /\ v.first \in {"401", "429", "URLError"}
            THEN <<VisionCall("primary_model", 1, v.second)>>
            ELSE <<>>)

\* lines 316-351: the calls of the loop over the keys for one fallback model:
\* the loop ends at the first result
fallback_key_calls(model, outcome, backup) ==
    <<VisionCall(model, 0, outcome)>>
        \o (IF backup /\ outcome # "ok" THEN <<VisionCall(model, 1, outcome)>> ELSE <<>>)

\* lines 295-358: the calls of the loop over the fallback models: the loop
\* ends at the first model that gave a result
fallback_calls(v, backup) ==
    fallback_key_calls(fallback_models[1], v.fallback, backup)
        \o (IF v.fallback # "ok"
            THEN fallback_key_calls(fallback_models[2], v.fallback, backup)
            ELSE <<>>)

\* line 292: should_try_fallback = (result is None) or (last_error_code == 429)
should_try_fallback(v, backup) == first_attempt(v, backup).go = "fallback"

\* every upstream call of the request, in order
vision_calls(v, backup) ==
    IF ~(v.file /\ v.api_key) THEN <<>>
    ELSE first_calls(v, backup)
             \o (IF should_try_fallback(v, backup) THEN fallback_calls(v, backup) ELSE <<>>)

\* the call whose response is in "result" at line 360, parsed from line 457
\* on; 0 when result is None or an exception was raised
parsed_call(v, backup) ==
    LET calls == vision_calls(v, backup)
    IN  IF calls = <<>> THEN 0
        ELSE IF should_try_fallback(v, backup)
        THEN (IF fallback_attempt(v).go = "result" THEN Len(calls) ELSE 0)
        ELSE (IF first_attempt(v, backup).go = "result" THEN Len(calls) ELSE 0)

analyze_photo(v) ==
    /\ resp' = Response("analyze_photo", NoHeader, v,
                        analyze_photo_status(v, chat.backup),
                        IF v.file /\ v.api_key THEN {"upstream"} ELSE {},
                        [calls |-> vision_calls(v, chat.backup),
                         parsed |-> parsed_call(v, chat.backup)])
    /\ UNCHANGED <<foods, user_food_logs, nextLogId, today, user_docs, users, chat, pending, pending_registrations, cache>>

----------------------------------------------------------------------------
(* routes/auth.py: register and verify_email_code.  A pending registration  *)
(* is [name, email, expired]: expired tells whether its                     *)
(* verification_expires_at (one minute after the registration) has passed.  *)

UpperCase == {"A","B","C","D","E","F","G","H","I","J","K","L","M",
              "N","O","P","Q","R","S","T","U","V","W","X","Y","Z"}
LowerCase == {"a","b","c","d","e","f","g","h","i","j","k","l","m",
              "n","o","p","q","r","s","t","u","v","w","x","y","z"}

\* validate_password_strength: is_valid
validate_password_strength(password) ==
    /\ Len(password) >= 8
    /\ \E i \in 1..Len(password) : password[i] \in UpperCase
    /\ \E i \in 1..Len(password) : password[i] \in LowerCase
    /\ \E i \in 1..Len(password) : IsDigit(password[i])

RegisterBody(name, email, password) == [name |-> name, email |-> email, password |-> password]

\* users.find_one({'email': email})
find_user_by_email(email) == {u \in DOMAIN users : users[u].email = email}

\* pending_registrations.find_one({'email': email})
find_pending(email) == {r \in pending_registrations : r.email = email}

\* the document verify_email_code inserts into users
RegisteredUser(name, email) ==
    [User(email, FALSE) EXCEPT !.name = name]

\* the ids insert_one can hand out to new users
NewUserIds == {"u2", "u3"}

\* Verification codes are numbered in the order they are issued: the code
\* of a registration is random.randint's draw, told apart from the codes
\* issued before it.  0 stands for a body without a code.
MaxCodes == 3

new_code ==
    1 + Max(0, CHOOSE m \in {0} \cup {r.code : r \in pending_registrations} :
                   \A r \in pending_registrations : r.code <= m)

\* the document register inserts into pending_registrations
PendingUser(name, email, code) ==
    [name |-> name, email |-> email, expired |-> FALSE, code |-> code]

\* what register answers before it inserts: 201 when it goes on to insert
register_status(data) ==
    IF data.name = "" \/ data.email = "" \/ Len(data.password) = 0 THEN 400
    ELSE IF ~validate_password_strength(data.password) THEN 400
    ELSE IF find_user_by_email(data.email) # {} THEN 409
    ELSE IF \E r \in find_pending(data.email) : ~r.expired THEN 409
    ELSE 201

register_steps(status) ==
    CASE status = 400 -> {"validate"}
      [] status = 409 -> {"validate", "read:users", "read:pending_registrations"}
      [] OTHER -> {"validate", "read:users", "read:pending_registrations",
                   "write:pending_registrations"}

\* register run alone.  email_sent: whether send_verification_email succeeded
register(data, email_sent) ==
    LET status == register_status(data)
    IN  /\ UNCHANGED <<foods, user_food_logs, nextLogId, today, user_docs, users, chat, pending, cache>>
        /\ IF status # 201
           THEN /\ resp' = Response("register", NoHeader, data, status,
                                    register_steps(status), NoData)
                /\ UNCHANGED pending_registrations
           ELSE /\ new_code <= MaxCodes
                /\ pending_registrations' =
                       (pending_registrations \ find_pending(data.email))
                           \cup {PendingUser(data.name, data.email, new_code)}
                /\ resp' = Response("register", NoHeader, data, 201, register_steps(201),
                                    [email |-> data.email, emailSent |-> email_sent])

\* register run next to other requests, up to its insert_one: it answers at
\* once when it rejects the body; otherwise it has deleted the expired
\* registration it found and is left pending, as the n-th request in flight
register_find(data, email_sent) ==
    IF register_status(data) # 201 THEN register(data, email_sent)
    ELSE /\ Cardinality(pending) < MaxPending
         /\ pending' = pending \cup {[op |-> "register", data |-> data,
                                       email_sent |-> email_sent,
                                       n |-> CHOOSE n \in 1..MaxPending :
                                                 \A p \in pending : p.n # n]}
         /\ pending_registrations' = pending_registrations \ find_pending(data.email)
         /\ UNCHANGED <<foods, user_food_logs, nextLogId, today, resp, user_docs, users, chat, cache>>

\* the insert_one of a pending register, and its answer
register_insert(p) ==
    /\ p \in pending
    /\ new_code <= MaxCodes
    /\ pending' = pending \ {p}
    /\ pending_registrations' =
           pending_registrations \cup {PendingUser(p.data.name, p.data.email, new_code)}
    /\ resp' = Response("register", NoHeader, p.data, 201, register_steps(201),
                        [email |-> p.data.email, emailSent |-> p.email_sent])
    /\ UNCHANGED <<foods, user_food_logs, nextLogId, today, user_docs, users, chat, cache>>

\* verification_expires_at of a pending registration passes
registration_expires(r) ==
    /\ r \in pending_registrations /\ ~r.expired
    /\ pending_registrations' = (pending_registrations \ {r}) \cup {[r EXCEPT !.expired = TRUE]}
    /\ UNCHANGED <<foods, user_food_logs, nextLogId, today, resp, user_docs, users, chat, pending, cache>>

\* resend_verification: a new code and a new minute for the pending
\* registration find_one returns
resend_verification(email) ==
    LET request == [email |-> email]
        Reply(status, steps) ==
            resp' = Response("resend_verification", NoHeader, request, status, steps, NoData)
        found == find_pending(email)
    IN  /\ UNCHANGED <<foods, user_food_logs, nextLogId, today, user_docs, users, chat, pending, cache>>
        /\ IF email = ""
           THEN Reply(400, {"validate"}) /\ UNCHANGED pending_registrations
           ELSE IF \E u \in find_user_by_email(email) : users[u].email_verified
           THEN Reply(200, {"validate", "read:users"}) /\ UNCHANGED pending_registrations
           ELSE IF found = {}
           THEN /\ Reply(200, {"validate", "read:users", "read:pending_registrations"})
                /\ UNCHANGED pending_registrations
           ELSE \E pending_user \in found :
                    IF pending_user.expired
                    THEN /\ pending_registrations' = pending_registrations \ {pending_user}
                         /\ Reply(400, {"validate", "read:users", "read:pending_registrations",
                                        "write:pending_registrations"})
                    ELSE /\ new_code <= MaxCodes
                         /\ pending_registrations' =
                                (pending_registrations \ {pending_user})
                                    \cup {[pending_user EXCEPT !.code = new_code]}
                         /\ Reply(200, {"validate", "read:users", "read:pending_registrations",
                                        "write:pending_registrations"})

\* code: the code of the body, 0 when it holds none.  find_one returns one
\* of the pending registrations of the email.
verify_email_code(email, code) ==
    LET request == [email |-> email, code |-> code]
        Reply(status, steps) ==
            resp' = Response("verify_email_code", NoHeader, request, status, steps, NoData)
        found == find_pending(email)
        existing == find_user_by_email(email)
        free == NewUserIds \ DOMAIN users
    IN  /\ UNCHANGED <<foods, user_food_logs, nextLogId, today, user_docs, chat, pending, cache>>
        /\ IF email = "" \/ code = 0
           THEN Reply(400, {"validate"}) /\ UNCHANGED <<users, pending_registrations, cache>>
           ELSE IF found = {}
           THEN /\ UNCHANGED <<users, pending_registrations, cache>>
                /\ IF \E u \in existing : users[u].email_verified
                   THEN Reply(200, {"validate", "read:pending_registrations", "read:users"})
                   ELSE Reply(400, {"validate", "read:pending_registrations", "read:users"})
           ELSE \E pending_user \in found :
                IF pending_user.expired
                THEN /\ pending_registrations' = pending_registrations \ {pending_user}
                     /\ Reply(400, {"validate", "read:pending_registrations",
                                    "write:pending_registrations"})
                     /\ UNCHANGED users
                ELSE IF code # pending_user.code
                THEN /\ Reply(400, {"validate", "read:pending_registrations"})
                     /\ UNCHANGED <<users, pending_registrations, cache>>
                ELSE IF existing # {}
                THEN /\ pending_registrations' = pending_registrations \ {pending_user}
                     /\ users' = [u \in DOMAIN users |->
                                      IF u \in existing
                                      THEN [users[u] EXCEPT !.email_verified = TRUE]
                                      ELSE users[u]]
                     /\ Reply(200, {"validate", "read:pending_registrations", "read:users",
                                    "write:pending_registrations"})
                ELSE /\ free # {}
                     /\ LET id == CHOOSE u \in free : TRUE
                        IN  users' = [u \in DOMAIN users \cup {id} |->
                                         IF u = id
                                         THEN RegisteredUser(pending_user.name,
                                                             pending_user.email)
                                         ELSE users[u]]
                     /\ pending_registrations' = pending_registrations \ {pending_user}
                     /\ Reply(200, {"validate", "read:pending_registrations", "read:users",
                                    "write:users", "write:pending_registrations"})

----------------------------------------------------------------------------
(* routes/auth.py: forgot_password, verify_code and reset_password.  A      *)
(* reset code is the number random.randint draws.                           *)

\* the messages of the answers
M_sent == "If an account with that email exists, a code has been sent."
M_email_required == "Email address is required"
M_fields_required == "Email, code, and new password are required"
M_verify_fields_required == "Email and code are required"
M_weak == "password strength"
M_invalid_email == "Invalid code or email"
M_invalid_code == "Invalid or expired code"
M_verified == "Code verified"
M_reset == "Password has been reset. You can now log in."
M_no_account == "No account found"

Answer(status, message) == [status |-> status, message |-> message]

\* users.find_one({'email': email}) on a users collection
find_account(accounts, email) == {u \in DOMAIN accounts : accounts[u].email = email}

\* faulty variant of forgot_password_answer: an email of no account is
\* answered 404
forgot_password_answer_404(accounts, email) ==
    IF email = "" THEN Answer(400, M_email_required)
    ELSE IF find_account(accounts, email) = {} THEN Answer(404, M_no_account)
    ELSE Answer(200, M_sent)

\* what forgot_password answers on a users collection
forgot_password_answer(accounts, email) ==
    IF email = "" THEN Answer(400, M_email_required)
    ELSE IF find_account(accounts, email) = {} THEN Answer(200, M_sent)
    ELSE Answer(200, M_sent)

\* code: the code random.randint draws
forgot_password(email, code) ==
    LET answer == forgot_password_answer(users, email)
        found == find_account(users, email)
        user == CHOOSE u \in found : TRUE
    IN  /\ resp' = Response("forgot_password", NoHeader, [email |-> email], answer.status,
                            IF email = "" THEN {"validate"}
                            ELSE IF found = {} THEN {"validate", "read:users"}
                            ELSE {"validate", "read:users", "write:users"},
                            [message |-> answer.message])
        /\ users' = IF email = "" \/ found = {} THEN users
                    ELSE [users EXCEPT ![user].reset_code = code,
                                       ![user].reset_expired = FALSE,
                                       ![user].spent_codes = {}]
        /\ UNCHANGED <<foods, user_food_logs, nextLogId, today, user_docs, chat, pending,
                       pending_registrations, cache>>

\* reset_code_expires_at of a user passes
reset_code_expires(u) ==
    /\ u \in DOMAIN users /\ users[u].reset_code # 0 /\ ~users[u].reset_expired
    /\ users' = [users EXCEPT ![u].reset_expired = TRUE]
    /\ UNCHANGED <<foods, user_food_logs, nextLogId, today, resp, user_docs, chat, pending,
                   pending_registrations, cache>>

\* not exp or exp < utcnow() or not code_hash or not bcrypt.checkpw(code, code_hash)
code_rejected(user, code) ==
    user.reset_code = 0 \/ user.reset_expired \/ code # user.reset_code

\* code: the code of the body, 0 when it holds none
verify_code(email, code) ==
    LET found == find_account(users, email)
        answer == IF email = "" \/ code = 0 THEN Answer(400, M_verify_fields_required)
                  ELSE IF found = {} THEN Answer(400, M_invalid_email)
                  ELSE IF code_rejected(users[CHOOSE u \in found : TRUE], code)
                  THEN Answer(400, M_invalid_code)
                  ELSE Answer(200, M_verified)
    IN  /\ resp' = Response("verify_code", NoHeader, [email |-> email, code |-> code],
                            answer.status,
                            IF email = "" \/ code = 0 THEN {"validate"}
                            ELSE {"validate", "read:users"},
                            [message |-> answer.message])
        /\ UNCHANGED <<foods, user_food_logs, nextLogId, today, user_docs, users, chat, pending,
                       pending_registrations, cache>>

\* faulty variant of reset_password_update: the code stays on the document
reset_password_update_keeping_code(user, new_password) ==
    [user EXCEPT !.password = hash_password(new_password)]

\* the update_one of reset_password: $set password, $unset the reset code
reset_password_update(user, new_password) ==
    [user EXCEPT !.password = hash_password(new_password),
                 !.reset_code = 0, !.reset_expired = FALSE]

reset_password(email, code, new_password) ==
    LET request == [email |-> email, code |-> code, newPassword |-> new_password]
        found == find_account(users, email)
        user == CHOOSE u \in found : TRUE
        answer == IF email = "" \/ code = 0 \/ Len(new_password) = 0
                  THEN Answer(400, M_fields_required)
                  ELSE IF ~validate_password_strength(new_password) THEN Answer(400, M_weak)
                  ELSE IF found = {} THEN Answer(400, M_invalid_email)
                  ELSE IF code_rejected(users[user], code) THEN Answer(400, M_invalid_code)
                  ELSE Answer(200, M_reset)
    IN  /\ resp' = Response("reset_password", NoHeader, request, answer.status,
                            IF answer.message \in {M_fields_required, M_weak} THEN {"validate"}
                            ELSE IF answer.status = 400 THEN {"validate", "read:users"}
                            ELSE {"validate", "read:users", "write:users"},
                            [message |-> answer.message])
        /\ users' = IF answer.status # 200 THEN users
                    ELSE [users EXCEPT
                             ![user] = [reset_password_update(@, new_password)
                                           EXCEPT !.spent_codes = @ \cup {code}]]
        /\ UNCHANGED <<foods, user_food_logs, nextLogId, today, user_docs, chat, pending,
                       pending_registrations, cache>>

----------------------------------------------------------------------------
(* utils/cache.py: Cache.  Time is counted in ticks of one minute.  cache   *)
(* holds the clock (datetime.now() and time.time()), max_size,              *)
(* _last_cleanup and the dict as the sequence of its entries in insertion   *)
(* order, each [key, data, timestamp, ttl].  Every method runs under the    *)
(* lock, so a call is one step.                                             *)

NoCache == <<>>

cleanup_interval == 5          \* _cleanup_interval, 300 seconds
MaxCacheClock == 7

CacheEntry(key, data, ttl, now) == [key |-> key, data |-> data, timestamp |-> now, ttl |-> ttl]

\* CacheEntry.is_expired
is_expired(entry, now) == now - entry.timestamp > entry.ttl

Cache(max_size) == [now |-> 0, max_size |-> max_size, last_cleanup |-> 0, entries |-> <<>>]

KeysOf(entries) == {entries[i].key : i \in 1..Len(entries)}

Where(entries, key) == CHOOSE i \in 1..Len(entries) : entries[i].key = key

\* the entries that have not expired, in order
RECURSIVE without_expired(_, _)
without_expired(entries, now) ==
    IF entries = <<>> THEN <<>>
    ELSE IF is_expired(Head(entries), now) THEN without_expired(Tail(entries), now)
    ELSE <<Head(entries)>> \o without_expired(Tail(entries), now)

\* del self.cache[key] / self.cache.pop(key, None)
RECURSIVE without_key(_, _)
without_key(entries, key) ==
    IF entries = <<>> THEN <<>>
    ELSE IF Head(entries).key = key THEN without_key(Tail(entries), key)
    ELSE <<Head(entries)>> \o without_key(Tail(entries), key)

\* _cleanup_if_needed: the cache afterwards
cleanup_if_needed(c) ==
    IF c.now - c.last_cleanup < cleanup_interval THEN c
    ELSE [c EXCEPT !.last_cleanup = c.now, !.entries = without_expired(@, c.now)]

\* min(self.cache.keys(), key=timestamp): the first key, in the order of
\* the dict, of the smallest timestamp
oldest_key(entries) ==
    LET i == CHOOSE i \in 1..Len(entries) :
                 /\ \A j \in 1..Len(entries) : entries[i].timestamp <= entries[j].timestamp
                 /\ \A j \in 1..(i - 1) : entries[j].timestamp > entries[i].timestamp
    IN  entries[i].key

\* faulty variant of evict_oldest: the entry set last goes
evict_newest(entries) ==
    IF entries = <<>> THEN entries
    ELSE without_key(entries,
                     entries[CHOOSE i \in 1..Len(entries) :
                                 \A j \in 1..Len(entries) :
                                     \/ entries[j].timestamp < entries[i].timestamp
                                     \/ (entries[j].timestamp = entries[i].timestamp /\ j <= i)
                            ].key)

\* _evict_oldest
evict_oldest(entries) ==
    IF entries = <<>> THEN entries ELSE without_key(entries, oldest_key(entries))

\* self.cache[key] = CacheEntry(data, ttl): a key of the dict keeps its place
store(entries, entry) ==
    IF entry.key \in KeysOf(entries)
    THEN [entries EXCEPT ![Where(entries, entry.key)] = entry]
    ELSE Append(entries, entry)

CacheReply(op, key, data) ==
    Response(op, NoHeader, [key |-> key], 200, {}, [data |-> data])

None == "None"

cache_frame ==
    UNCHANGED <<foods, user_food_logs, nextLogId, today, user_docs, users, chat, pending,
                pending_registrations>>

cache_get(key) ==
    LET c == cleanup_if_needed(cache)
        found == key \in KeysOf(c.entries)
        entry == c.entries[Where(c.entries, key)]
    IN  /\ cache_frame
        /\ IF ~found
           THEN cache' = c /\ resp' = CacheReply("get", key, None)
           ELSE IF is_expired(entry, c.now)
           THEN /\ cache' = [c EXCEPT !.entries = without_key(@, key)]
                /\ resp' = CacheReply("get", key, None)
           ELSE cache' = c /\ resp' = CacheReply("get", key, entry.data)

cache_set(key, data, ttl) ==
    LET c == cleanup_if_needed(cache)
        kept == IF Len(c.entries) >= c.max_size /\ key \notin KeysOf(c.entries)
                THEN evict_oldest(c.entries)
                ELSE c.entries
    IN  /\ cache_frame
        /\ cache' = [c EXCEPT !.entries = store(kept, CacheEntry(key, data, ttl, c.now))]
        /\ resp' = Response("set", NoHeader, [key |-> key, data |-> data, ttl |-> ttl],
                            200, {}, NoData)

cache_delete(key) ==
    /\ cache_frame
    /\ cache' = [cache EXCEPT !.entries = without_key(@, key)]
    /\ resp' = CacheReply("delete", key, None)

cache_clear ==
    /\ cache_frame
    /\ cache' = [cache EXCEPT !.entries = <<>>]
    /\ resp' = CacheReply("clear", "", None)

\* Cache.size()
cache_size == Len(cache.entries)

\* a minute passes
cache_tick ==
    /\ cache.now < MaxCacheClock
    /\ cache' = [cache EXCEPT !.now = @ + 1]
    /\ UNCHANGED resp
    /\ cache_frame

----------------------------------------------------------------------------
(* Inputs: units, serving sizes, food documents, request bodies             *)

U_g == <<"g">>
U_can == <<"c","a","n">>
U_bottle == <<"b","o","t","t","l","e">>
U_ml == <<"m","l">>
U_egg == <<"e","g","g">>
U_Egg == <<"E","g","g">>
U_apple == <<"a","p","p","l","e">>
U_banana == <<"b","a","n","a","n","a">>
U_piece == <<"p","i","e","c","e">>
U_cup == <<"c","u","p">>

S_100g == <<"1","0","0"," ","g">>
S_330ml == <<"3","3","0"," ","m","l">>
S_can330ml == <<"1"," ","c","a","n"," ","(","3","3","0","m","l",")">>
S_0ml == <<"0"," ","m","l">>
S_0g == <<"0"," ","g">>
S_apple == <<"1"," ","m","e","d","i","u","m"," ","a","p","p","l","e">>
S_egg == <<"1"," ","l","a","r","g","e"," ","e","g","g">>
S_glass == <<"1"," ","g","l","a","s","s">>
S_slice == <<"1"," ","s","l","i","c","e"," ","(","2","7",".","5"," ","g",")">>

Facts(calories, protein) ==
    [k \in Fields |->
        CASE k = "calories" -> JNum(calories)
          [] k = "protein" -> JNum(protein)
          [] k = "carbs" -> JNum(RInt(25))
          [] k = "fat" -> JNum(Rat(3, 10))
          [] OTHER -> JAbsent]

Food(name, facts, serving_size, serving_weight_grams) ==
    [name |-> name, facts |-> facts, serving_size |-> serving_size,
     serving |-> <<>>, serving_weight_grams |-> serving_weight_grams]

\* the food of tests/test_food_logs.py test_log_food_success
Apple == Food("Apple", Facts(RInt(95), Rat(1, 2)), S_apple, JNum(RInt(182)))

Iso(day) == [t |-> "iso", day |-> day]
NoDate == [t |-> "absent", day |-> 0]
BadDate == [t |-> "bad", day |-> 0]
Ymd(day) == [t |-> "ymd", day |-> day]

LogBody(foodId, quantity, mealType, loggedAt, unit, originalAmount) ==
    [foodId |-> foodId, quantity |-> quantity, mealType |-> mealType,
     loggedAt |-> loggedAt, unit |-> unit, originalAmount |-> originalAmount]

UpdateBody(quantity, unit, originalAmount, mealType) ==
    [quantity |-> quantity, unit |-> unit, originalAmount |-> originalAmount,
     mealType |-> mealType]

\* quantities log_food must reject
BadQuantities == {JAbsent, JNull, JNum(RInt(0)), JNum(RInt(-10)), JBadStr}

----------------------------------------------------------------------------
(* Spec: the food-log and food endpoints called by two users                *)

SpecLogBodies ==
    { LogBody("f1", JNum(RInt(182)), "breakfast", NoDate, SStr(U_g), JNum(RInt(182))),
      LogBody("f1", JNumStr(RInt(91)), "lunch", Iso(2), SAbsent, JAbsent),
      LogBody("f1", JNum(RInt(-10)), "breakfast", NoDate, SAbsent, JAbsent),
      LogBody("f1", JNum(RInt(182)), "breakfast", BadDate, SStr(U_g), JNum(RInt(182))),
      LogBody(UnknownFoodId, JNum(RInt(1)), "lunch", NoDate, SStr(U_g), JAbsent) }

SpecUpdateBodies ==
    { UpdateBody(JNum(RInt(91)), SAbsent, JAbsent, ""),
      UpdateBody(JAbsent, SAbsent, JAbsent, ""),
      UpdateBody(JBadStr, SAbsent, JAbsent, "") }

SpecFoodBodies ==
    { FoodBody("", [NoFacts EXCEPT !["calories"] = JNum(RInt(52))], SAbsent, JAbsent),
      FoodBody("", [NoFacts EXCEPT !["calories"] = JBadStr], SAbsent, JAbsent),
      [EmptyBody EXCEPT !.extra = TRUE],
      EmptyBody }

SpecAddBodies ==
    { FoodBody("Pear", [NoFacts EXCEPT !["calories"] = JNum(RInt(57))], SAbsent, JAbsent),
      EmptyBody }

SpecTokens == {Expired} \cup {AccessToken(u) : u \in UserIds}
SpecDates == {NoDate, BadDate, Ymd(2)}
SpecLogIds == LogIds \cup {UnknownLogId, BadLogId}
SpecFoodIds == {"f1", UnknownFoodId, BadFoodId}

NoChat == <<>>
NoDocs == [c \in Collections |-> {}]
NoUsers == <<>>

Init ==
    /\ foods = [f \in {"f1"} |-> Apple]
    /\ user_food_logs = <<>>
    /\ nextLogId = 1
    /\ today = 1
    /\ resp = NoResponse
    /\ user_docs = NoDocs
    /\ users = NoUsers
    /\ chat = NoChat
    /\ pending = {}
    /\ pending_registrations = {}
    /\ cache = NoCache

Next ==
    \/ \E tok \in SpecTokens, data \in SpecLogBodies : log_food(tok, data)
    \/ \E tok \in SpecTokens, date \in SpecDates : get_logs(tok, date)
    \/ \E tok \in SpecTokens, id \in SpecLogIds, data \in SpecUpdateBodies :
           update_log(tok, id, data)
    \/ \E tok \in SpecTokens, id \in SpecLogIds : delete_log(tok, id)
    \/ \E tok \in SpecTokens, date \in SpecDates : summary(tok, date)
    \/ \E id \in SpecFoodIds, data \in SpecFoodBodies : update_food(id, data)
    \/ \E data \in SpecAddBodies : add_food(data)

Spec == Init /\ [][Next]_vars

----------------------------------------------------------------------------
(* SpecCalc: one user logs one entry of one food and edits it, over a wide  *)
(* range of foods, quantities, units and original amounts                   *)

Cola(serving_weight_grams) ==
    Food("Cola", Facts(RInt(139), RInt(0)), S_330ml, serving_weight_grams)

CalcFoods ==
    { Apple,
      Cola(JNum(RInt(330))), Cola(JNum(RInt(100))), Cola(JNum(RInt(0))),
      Cola(JAbsent), Cola(JNumStr(RInt(100))),
      Food("Egg", Facts(RInt(155), RInt(13)), S_egg, JNum(RInt(100))),
      Food("Bread", Facts(RInt(265), RInt(9)), S_slice, JNum(RInt(30))),
      Food("Juice", Facts(RInt(45), Rat(7, 10)), S_glass, JNum(RInt(250))),
      Food("Water", Facts(RInt(0), RInt(0)), S_0ml, JNum(RInt(250))),
      Food("Rice", Facts(RInt(130), Rat(27, 10)), <<>>, JNumStr(RInt(100))),
      \* an egg with no serving_size at all, one with a negative weight, one
      \* with none, a 250 g dish, and a food stored with "0 g" and weight 0
      Food("Egg", Facts(RInt(155), RInt(13)), <<>>, JNum(RInt(100))),
      Food("Egg", Facts(RInt(155), RInt(13)), S_egg, JNum(RInt(-50))),
      Food("Egg", Facts(RInt(155), RInt(13)), S_egg, JAbsent),
      Food("Omelette", Facts(RInt(154), RInt(11)), S_egg, JNum(RInt(250))),
      Food("Salt", Facts(RInt(0), RInt(0)), S_0g, JNum(RInt(0))) }

CalcUnits == {SAbsent, SStr(U_g), SStr(U_can), SStr(U_ml), SStr(U_egg), SStr(U_Egg),
              SStr(U_piece)}

CalcLogBodies ==
    {LogBody("f1", q, "lunch", NoDate, u, JAbsent) :
        q \in BadQuantities, u \in {SAbsent, SStr(U_can), SNonStr}}
    \cup
    {LogBody("f1", q, "lunch", NoDate, u, oa) :
        q \in {JNum(RInt(1)), JNum(RInt(330)), JNumStr(RInt(182)), JNum(RInt(182))},
        u \in CalcUnits,
        oa \in {JAbsent, JNum(RInt(0)), JNum(RInt(2))}}
    \cup
    {LogBody("f1", JNum(RInt(1)), "lunch", NoDate, SStr(U_egg), oa) :
        oa \in {JNum(RInt(-2)), JNull, JBadStr}}

CalcUpdateBodies ==
    {UpdateBody(q, u, oa, "") :
        q \in {JAbsent, JNum(RInt(1)), JNum(RInt(330)), JNum(RInt(-182))},
        u \in {SAbsent, SStr(U_can), SStr(U_egg)},
        oa \in {JAbsent, JNum(RInt(0)), JNum(RInt(2))}}
    \cup
    { UpdateBody(JBadStr, SAbsent, JAbsent, ""),
      UpdateBody(JNum(RInt(1)), SNonStr, JAbsent, ""),
      UpdateBody(JNum(RInt(1)), SStr(U_egg), JNull, ""),
      UpdateBody(JAbsent, SAbsent, JAbsent, "dinner"),
      UpdateBody(JAbsent, SAbsent, JAbsent, "") }

CalcUser == AccessToken("u1")

InitCalc ==
    /\ \E food \in CalcFoods : foods = [f \in {"f1"} |-> food]
    /\ user_food_logs = <<>>
    /\ nextLogId = 1
    /\ today = 1
    /\ resp = NoResponse
    /\ user_docs = NoDocs
    /\ users = NoUsers
    /\ chat = NoChat
    /\ pending = {}
    /\ pending_registrations = {}
    /\ cache = NoCache

NextCalc ==
    \/ /\ nextLogId = 1
       /\ \E data \in CalcLogBodies : log_food(CalcUser, data)
    \/ \E data \in CalcUpdateBodies : update_log(CalcUser, 1, data)

SpecCalc == InitCalc /\ [][NextCalc]_vars

----------------------------------------------------------------------------
(* SpecReport: two users record meals (for today or for a date they name)   *)
(* and exercises (for today), days pass, and they ask for the reports       *)

MaxDocs == 2
MaxDays == 1

\* the day the run starts on
ReportDays == {ToOrdinal(<<2026, 3, 30>>)}

\* how many days before today the date of a meal lies that u1 records;
\* u2 records today's meals
MealOffsets == {0, 6, 29, 45, 100}

MealCalories == {100}
BurnedCalories == {50}

MealRequests ==
    {<<AccessToken("u1"), off>> : off \in MealOffsets}
        \cup {<<AccessToken("u2"), 0>>, <<NoHeader, 0>>}

ExerciseTokens == {NoHeader, AccessToken("u1")}
ReportTokens == {NoHeader, AccessToken("u1")}

\* the document is there already, or the collection still has room
Room(coll, tok, key) ==
    \/ find_docs(coll, verify_token(tok).userId, key) # {}
    \/ Cardinality(user_docs[coll]) < MaxDocs

NextDay ==
    /\ today' = today + 1
    /\ UNCHANGED <<foods, user_food_logs, nextLogId, resp, user_docs, users, chat, pending, pending_registrations, cache>>

InitReport ==
    /\ foods = [f \in {"f1"} |-> Apple]
    /\ user_food_logs = <<>>
    /\ nextLogId = 1
    /\ today \in ReportDays
    /\ resp = NoResponse
    /\ user_docs = NoDocs
    /\ users = NoUsers
    /\ chat = NoChat
    /\ pending = {}
    /\ pending_registrations = {}
    /\ cache = NoCache

NextReport ==
    \/ \E req \in MealRequests, meal \in MealCalories :
           /\ Room("daily_meals", req[1], FromOrdinal(today - req[2]))
           /\ add_meal_entry(req[1], FromOrdinal(today - req[2]), 0, meal)
    \/ \E tok \in ExerciseTokens, exercise \in BurnedCalories :
           /\ Room("daily_activity", tok, TodayKey)
           /\ add_exercise(tok, 0, exercise)
    \/ \E tok \in ReportTokens : get_weekly_report(tok)
    \/ \E tok \in ReportTokens : get_monthly_report(tok)
    \/ \E tok \in ReportTokens : get_yearly_report(tok)
    \/ (\E day \in ReportDays : today < day + MaxDays /\ today >= day) /\ NextDay

SpecReport == InitReport /\ [][NextReport]_vars

----------------------------------------------------------------------------
(* SpecAuth: every endpoint that takes a bearer token, called with no       *)
(* header, a malformed header, a token of a bad signature, an expired token *)
(* and the token of the administrator u1, on a database where u1 and u2     *)
(* have each logged a food and recorded a meal and an exercise today        *)

AuthDay == ToOrdinal(<<2026, 11, 1>>)

AuthLog(user_id) ==
    [user_id |-> user_id, food_id |-> "f1", food_name |-> Apple.name,
     quantity |-> RInt(182), meal_type |-> "lunch", logged_at |-> AuthDay,
     nutrition |-> log_food_nutrition(
                       Apple, log_food_multiplier(Apple, RInt(182), RInt(182), U_g).value)]

AuthTokens == RejectedTokens \cup {AccessToken("u1")}
AdminTokens == AuthTokens \cup {AccessToken("u2")}

\* a body log_food rejects: the quantity is 0
AuthLogBody == LogBody("f1", JNum(RInt(0)), "lunch", NoDate, SStr(U_g), JAbsent)

AuthUpdateBody == UpdateBody(JAbsent, SAbsent, JAbsent, "lunch")

InitAuth ==
    /\ foods = [f \in {"f1"} |-> Apple]
    /\ user_food_logs = <<AuthLog("u1"), AuthLog("u2")>>
    /\ nextLogId = 3
    /\ today = AuthDay
    /\ resp = NoResponse
    /\ user_docs =
           [c \in Collections |->
               {Doc(u, IF c \in DailyCollections THEN FromOrdinal(AuthDay) ELSE NoKey,
                    CASE c = "daily_meals" -> <<100>>
                      [] c = "daily_activity" -> <<50>>
                      [] OTHER -> <<>>) : u \in UserIds}]
    /\ users = [u \in UserIds |->
                   IF u = "u1" THEN User(ADMIN_EMAIL, TRUE) ELSE User("user@example.com", FALSE)]
    /\ chat = NoChat
    /\ pending = {}
    /\ pending_registrations = {}
    /\ cache = NoCache

NextAuth ==
    \/ \E tok \in AuthTokens : log_food(tok, AuthLogBody)
    \/ \E tok \in AuthTokens : get_logs(tok, NoDate)
    \/ \E tok \in AuthTokens : update_log(tok, 1, AuthUpdateBody)
    \/ \E tok \in AuthTokens : delete_log(tok, 1)
    \/ \E tok \in AuthTokens : summary(tok, NoDate)
    \/ \E tok \in AuthTokens : get_profile_photo(tok)
    \/ \E tok \in AuthTokens : upload_profile_photo(tok, 0)
    \/ \E tok \in AuthTokens : delete_profile_photo(tok)
    \/ \E tok \in AuthTokens : remove_profile_photo(tok)
    \/ \E tok \in AuthTokens : get_profile(tok)
    \/ \E tok \in AuthTokens : put_profile(tok)
    \/ \E tok \in AuthTokens : get_goals_today(tok)
    \/ \E tok \in AuthTokens : put_goals_today(tok)
    \/ \E tok \in AuthTokens : get_meals_today(tok)
    \/ \E tok \in AuthTokens : save_meals_today(tok, <<100>>)
    \/ \E tok \in AuthTokens : get_meals_by_date(tok, 0)
    \/ \E tok \in AuthTokens : add_meal_entry(tok, TodayKey, 0, 100)
    \/ \E tok \in AuthTokens : get_meals_history(tok)
    \/ \E tok \in AuthTokens : delete_meals_by_date(tok, 0)
    \/ \E tok \in AuthTokens : get_weekly_report(tok)
    \/ \E tok \in AuthTokens : get_monthly_report(tok)
    \/ \E tok \in AuthTokens : get_yearly_report(tok)
    \/ \E tok \in AuthTokens : get_activity_today(tok, TRUE)
    \/ \E tok \in AuthTokens : save_activity_today(tok, 0, <<50>>)
    \/ \E tok \in AuthTokens : add_exercise(tok, 0, 50)
    \/ \E tok \in AuthTokens : update_water_intake(tok, 0)
    \/ \E tok \in AuthTokens : delete_exercise(tok, 1)
    \/ \E tok \in AuthTokens : get_activity_history(tok)
    \/ \E tok \in AdminTokens : get_all_users(tok)
    \/ \E tok \in AdminTokens : get_user(tok, "u2")
    \/ \E tok \in AdminTokens : toggle_admin_status(tok, "u2", FALSE)
    \/ \E tok \in AdminTokens : delete_user(tok, "u1")
    \/ \E tok \in AdminTokens : delete_user_history(tok, "u2", "all", NoKey)
    \/ \E tok \in AdminTokens : get_admin_stats(tok)
    \/ \E tok \in AdminTokens : bulk_user_operations(tok, <<"u1">>, "promote")
    \/ \E tok \in AdminTokens : get_admin_logs(tok)

SpecAuth == InitAuth /\ [][NextAuth]_vars

----------------------------------------------------------------------------
(* SpecChat: two chat requests arrive at any time and run concurrently,     *)
(* with and without a backup key, against an upstream that answers each     *)
(* call with success, 401, 429, 500 or a network error                      *)

MaxClock == 10
MaxCalls == 3

\* the Retry-After header of an upstream 429, in ticks: none, or half a second
RetryAfters == {0, 1}

InitChat ==
    /\ foods = [f \in {"f1"} |-> Apple]
    /\ user_food_logs = <<>>
    /\ nextLogId = 1
    /\ today = 1
    /\ resp = NoResponse
    /\ user_docs = NoDocs
    /\ users = NoUsers
    /\ pending = {}
    /\ pending_registrations = {}
    /\ cache = NoCache
    /\ \E backup \in BOOLEAN :
           chat = [clock |-> CHAT_MIN_INTERVAL,
                   last_request_time |-> 0,
                   lock |-> 0,
                   backup |-> backup,
                   requests |-> [r \in ChatRequests |-> IdleRequest],
                   calls |-> <<>>]

NextChat ==
    \/ chat.clock < MaxClock /\ Tick
    \/ \E r \in ChatRequests, has_message \in BOOLEAN : chat_arrive(r, has_message)
    \/ \E r \in ChatRequests : chat_lock(r)
    \/ \E r \in ChatRequests : chat_limit(r)
    \/ \E r \in ChatRequests, outcome \in Outcomes, retry_after \in RetryAfters :
           /\ Len(chat.calls) < MaxCalls
           /\ outcome # "429" => retry_after = 0
           /\ chat_send(r, outcome, retry_after)
    \/ \E r \in ChatRequests : chat_backoff(r)
    \/ \E r \in ChatRequests : chat_rate_limited(r)

SpecChat == InitChat /\ [][NextChat]_vars

----------------------------------------------------------------------------
(* SpecUpstream: one chat request and photo analyses against an upstream    *)
(* that fails in every way                                                  *)

VisionRequests ==
    { VisionRequest(FALSE, TRUE, TRUE, "ok", "ok", "ok", TRUE, "food"),
      VisionRequest(TRUE, FALSE, TRUE, "ok", "ok", "ok", TRUE, "food") }
    \cup
    { VisionRequest(TRUE, TRUE, TRUE, first, "401", "503", TRUE, "food") :
        first \in VisionOutcomes }
    \cup
    { VisionRequest(TRUE, TRUE, FALSE, "400", "ok", "ok", TRUE, "food"),
      VisionRequest(TRUE, TRUE, TRUE, "429", "ok", "ok", TRUE, "not_food"),
      VisionRequest(TRUE, TRUE, TRUE, "429", "429", "URLError", TRUE, "food"),
      VisionRequest(TRUE, TRUE, TRUE, "429", "429", "429", FALSE, "food"),
      VisionRequest(TRUE, TRUE, TRUE, "ok", "ok", "ok", TRUE, "invalid") }

NextUpstream ==
    \/ chat.clock < MaxClock /\ Tick
    \/ \E has_message \in BOOLEAN : chat_arrive(1, has_message)
    \/ chat_lock(1)
    \/ chat_limit(1)
    \/ \E outcome \in Outcomes, retry_after \in RetryAfters :
           /\ Len(chat.calls) < MaxCalls
           /\ outcome # "429" => retry_after = 0
           /\ chat_send(1, outcome, retry_after)
    \/ chat_backoff(1)
    \/ chat_rate_limited(1)
    \/ \E v \in VisionRequests : analyze_photo(v)

SpecUpstream == InitChat /\ [][NextUpstream]_vars

----------------------------------------------------------------------------
(* SpecUpsert: the requests of one user that upsert today's meal and        *)
(* activity documents, run concurrently                                     *)

UpsertDay == ToOrdinal(<<2026, 3, 30>>)

UpsertTokens == {AccessToken("u1")}

\* the handlers that upsert a daily document, each with the collection and
\* the change of its update_one
UpsertCalls ==
    { [op |-> "save_meals_today", coll |-> "daily_meals", change |-> Set(<<100>>)],
      [op |-> "add_meal_entry", coll |-> "daily_meals", change |-> Push(200)],
      [op |-> "save_activity_today", coll |-> "daily_activity", change |-> Set(<<50>>)],
      [op |-> "add_exercise", coll |-> "daily_activity", change |-> Push(60)],
      [op |-> "update_water_intake", coll |-> "daily_activity", change |-> Keep] }

InitUpsert ==
    /\ foods = [f \in {"f1"} |-> Apple]
    /\ user_food_logs = <<>>
    /\ nextLogId = 1
    /\ today = UpsertDay
    /\ resp = NoResponse
    /\ user_docs = NoDocs
    /\ users = NoUsers
    /\ chat = NoChat
    /\ pending = {}
    /\ pending_registrations = {}
    /\ cache = NoCache

NextUpsert ==
    \/ \E c \in UpsertCalls, tok \in UpsertTokens :
           upsert_start(c.op, tok, c.coll, TodayKey, 0, c.change)
    \/ \E p \in pending : upsert_insert(p)

SpecUpsert == InitUpsert /\ [][NextUpsert]_vars

----------------------------------------------------------------------------
(* SpecRegister: visitors register and verify their email addresses, next   *)
(* to one user who exists already                                           *)

P_strong == <<"S","t","r","o","n","g","P","a","s","s","1","2","3","!","@","#">>
P_short == <<"A","b","1">>
P_nodigit == <<"P","a","s","s","w","o","r","d","s">>
P_lower == <<"p","a","s","s","w","o","r","d","1">>

RegisterEmails == {"", "newuser@example.com", "other@example.com", "existing@example.com"}

RegisterBodies ==
    {RegisterBody(name, email, password) :
        name \in {"", "New User"},
        email \in RegisterEmails,
        password \in {<<>>, P_strong, P_short, P_nodigit, P_lower}}

InitRegister ==
    /\ foods = [f \in {"f1"} |-> Apple]
    /\ user_food_logs = <<>>
    /\ nextLogId = 1
    /\ today = 1
    /\ resp = NoResponse
    /\ user_docs = NoDocs
    /\ users = [u \in {"u1"} |-> User("existing@example.com", FALSE)]
    /\ chat = NoChat
    /\ pending = {}
    /\ pending_registrations = {}
    /\ cache = NoCache

NextRegister ==
    \/ \E data \in RegisterBodies, email_sent \in BOOLEAN : register(data, email_sent)
    \/ \E r \in pending_registrations : registration_expires(r)
    \/ \E email \in RegisterEmails : resend_verification(email)
    \/ \E email \in RegisterEmails, code \in 0..MaxCodes : verify_email_code(email, code)

SpecRegister == InitRegister /\ [][NextRegister]_vars

----------------------------------------------------------------------------
(* SpecExercise: one user saves, adds, deletes and reads today's exercises  *)
(* with concurrent requests                                                 *)

N_running == <<"R","u","n","n","i","n","g">>
N_yoga == <<" ","Y","o","g","a">>
N_blank == <<" ">>

ExerciseBodies ==
    {ExerciseBody(N_running, JNum(RInt(-10)), JNum(RInt(300))),
     ExerciseBody(N_running, JNum(RInt(0)), JAbsent),
     ExerciseBody(N_running, JNum(RInt(30)), JNum(RInt(300))),
     ExerciseBody(N_yoga, JBadStr, JNum(RInt(100))),
     ExerciseBody(N_blank, JNum(RInt(30)), JNum(RInt(300))),
     ExerciseBody(<<>>, JAbsent, JAbsent)}

\* an exercise as save_activity_today stores it, with no calories
Walking == [name |-> <<"W","a","l","k">>, duration |-> RInt(20), caloriesBurned |-> RInt(0)]

ActivityTokens == {NoHeader, AccessToken("u1")}

InitExercise ==
    /\ foods = [f \in {"f1"} |-> Apple]
    /\ user_food_logs = <<>>
    /\ nextLogId = 1
    /\ today = ToOrdinal(<<2026, 3, 30>>)
    /\ resp = NoResponse
    /\ user_docs = NoDocs
    /\ users = [u \in {"u1"} |-> User("u1@example.com", FALSE)]
    /\ chat = NoChat
    /\ pending = {}
    /\ pending_registrations = {}
    /\ cache = NoCache

NextExercise ==
    \/ \E tok \in ActivityTokens, data \in ExerciseBodies : add_exercise_request(tok, data)
    \/ save_activity_today(AccessToken("u1"), 0, <<Walking>>)
    \/ get_activity_today_find(AccessToken("u1"))
    \/ \E exercise_index \in 0..1 : delete_exercise_find(AccessToken("u1"), exercise_index)
    \/ \E p \in pending : activity_update_one(p)

SpecExercise == InitExercise /\ [][NextExercise]_vars

----------------------------------------------------------------------------
(* SpecAdmin: the main admin u1 and a second admin u2 toggle, delete and    *)
(* bulk-edit accounts, naming them by id in either case, on a database      *)
(* where both have logged a food and recorded a meal and an exercise        *)

AdminCallers == {AccessToken("u1"), AccessToken("u2")}
NamedUserIds == {"u1", "u2", "U1", "U2", BadUserId}
BulkUserIds ==
    {<<a>> : a \in NamedUserIds} \cup {<<"u1", "u2">>, <<"U2", "u1">>, <<"u2", "u2">>}

InitAdmin ==
    /\ foods = [f \in {"f1"} |-> Apple]
    /\ user_food_logs = <<AuthLog("u1"), AuthLog("u2")>>
    /\ nextLogId = 3
    /\ today = AuthDay
    /\ resp = NoResponse
    /\ user_docs =
           [c \in Collections |->
               {Doc(u, IF c \in DailyCollections THEN FromOrdinal(AuthDay) ELSE NoKey,
                    CASE c = "daily_meals" -> <<100>>
                      [] c = "daily_activity" -> <<50>>
                      [] OTHER -> <<>>) : u \in UserIds}]
    /\ users = [u \in UserIds |->
                   IF u = "u1" THEN User(ADMIN_EMAIL, TRUE) ELSE User("second@example.com", TRUE)]
    /\ chat = NoChat
    /\ pending = {}
    /\ pending_registrations = {}
    /\ cache = NoCache

NextAdmin ==
    \/ \E tok \in AdminCallers, user_id \in NamedUserIds, is_admin \in BOOLEAN :
           toggle_admin_status(tok, user_id, is_admin)
    \/ \E tok \in AdminCallers, user_id \in NamedUserIds : delete_user(tok, user_id)
    \/ \E tok \in AdminCallers, user_ids \in BulkUserIds,
           action \in {"delete", "demote", "promote"} :
           bulk_user_operations(tok, user_ids, action)

SpecAdmin == InitAdmin /\ [][NextAdmin]_vars

----------------------------------------------------------------------------
(* SpecVerify: registrations, resends and verifications of one new email    *)
(* and of the email of an existing user, the registers running concurrently *)

VerifyEmails == {"newuser@example.com", "existing@example.com"}

VerifyBodies ==
    {RegisterBody("New User", email, password) :
        email \in VerifyEmails, password \in {P_strong, P_short}}

NextVerify ==
    \/ \E data \in VerifyBodies : register_find(data, TRUE)
    \/ \E p \in pending : register_insert(p)
    \/ \E r \in pending_registrations : registration_expires(r)
    \/ \E email \in VerifyEmails : resend_verification(email)
    \/ \E email \in VerifyEmails, code \in 0..MaxCodes : verify_email_code(email, code)

SpecVerify == InitRegister /\ [][NextVerify]_vars

----------------------------------------------------------------------------
(* SpecReset: password resets of one user, and requests for an email of no  *)
(* user                                                                     *)

P_new == <<"N","e","w","P","a","s","s","2">>

ResetEmails == {"", "existing@example.com", "nobody@example.com"}
ResetCodes == 1..2

NextReset ==
    \/ \E email \in ResetEmails, code \in ResetCodes : forgot_password(email, code)
    \/ \E u \in DOMAIN users : reset_code_expires(u)
    \/ \E email \in ResetEmails, code \in {0} \cup ResetCodes : verify_code(email, code)
    \/ \E email \in ResetEmails, code \in {0} \cup ResetCodes,
           new_password \in {<<>>, P_short, P_strong, P_new} :
           reset_password(email, code, new_password)

SpecReset == InitRegister /\ [][NextReset]_vars

----------------------------------------------------------------------------
(* SpecCache: a Cache of max_size 1 or 2 used with three keys, TTLs of one  *)
(* and of ten minutes, while the clock runs                                 *)

CacheKeys == {"a", "b", "c"}
CacheTTLs == {1, 10}
CacheSizes == {1, 2}

InitCache ==
    /\ foods = [f \in {"f1"} |-> Apple]
    /\ user_food_logs = <<>>
    /\ nextLogId = 1
    /\ today = 1
    /\ resp = NoResponse
    /\ user_docs = NoDocs
    /\ users = [u \in {"u1"} |-> User("u1@example.com", FALSE)]
    /\ chat = NoChat
    /\ pending = {}
    /\ pending_registrations = {}
    /\ \E max_size \in CacheSizes : cache = Cache(max_size)

NextCache ==
    \/ \E key \in CacheKeys : cache_get(key)
    \/ \E key \in CacheKeys, ttl \in CacheTTLs : cache_set(key, "data of " \o key, ttl)
    \/ \E key \in CacheKeys : cache_delete(key)
    \/ cache_clear
    \/ cache_tick

SpecCache == InitCache /\ [][NextCache]_vars

----------------------------------------------------------------------------
(* SpecChatFair: the chat requests against an upstream that answers each    *)
(* call of the first request in any way, with no bound on the calls but    *)
(* the code's own.  Time                                                    *)
(* passes while a request sleeps; a request that can take a step takes it   *)
(* (the worker thread runs, urlopen returns within its timeout of 30 s).    *)

MaxSent == 6
MaxIdleClock == 5

ChatOutcomes == Outcomes \cup {"400"}

Sleeping(r) ==
    /\ chat.requests[r].pc = "send"
    /\ chat.clock < chat.requests[r].wake

ChatTick == (chat.clock < MaxIdleClock \/ \E r \in ChatRequests : Sleeping(r)) /\ Tick

ChatArrive == \E r \in ChatRequests, has_message \in BOOLEAN : chat_arrive(r, has_message)

\* the second request meets an upstream that answers its first call
UpstreamOf(r) == IF r = 1 THEN ChatOutcomes ELSE {"ok"}

ChatRun(r) ==
    \/ chat_lock(r)
    \/ chat_limit(r)
    \/ \E outcome \in UpstreamOf(r), retry_after \in RetryAfters :
           /\ chat.requests[r].sent < MaxSent
           /\ outcome # "429" => retry_after = 0
           /\ chat_send(r, outcome, retry_after)
    \/ chat_backoff(r)
    \/ chat_rate_limited(r)

NextChatFair ==
    \/ ChatTick
    \/ ChatArrive
    \/ \E r \in ChatRequests : ChatRun(r)

SpecChatFair ==
    /\ InitChat
    /\ [][NextChatFair]_vars
    /\ WF_vars(ChatTick)
    /\ \A r \in ChatRequests : WF_vars(ChatRun(r))

----------------------------------------------------------------------------
(* SpecVision: photo analyses with and without a backup key, against an     *)
(* upstream that answers the primary key, the backup key and the fallback   *)
(* models in every way                                                      *)

AllVisionRequests ==
    { VisionRequest(TRUE, TRUE, gpt5, first, second, fallback, has_body, content) :
        gpt5 \in BOOLEAN, first \in VisionOutcomes, second \in VisionOutcomes,
        fallback \in VisionOutcomes, has_body \in BOOLEAN,
        content \in {"food", "not_food"} }

NextVision == \E v \in AllVisionRequests : analyze_photo(v)

SpecVision == InitChat /\ [][NextVision]_vars

----------------------------------------------------------------------------
(* Claims checked under Spec                                                *)

\* the sum of the stored snapshots of a set of logs, field by field
RECURSIVE SumStored(_, _)
SumStored(ids, k) ==
    IF ids = {} THEN RInt(0)
    ELSE LET i == CHOOSE i \in ids : TRUE
         IN  RAdd(user_food_logs[i].nutrition[k], SumStored(ids \ {i}, k))

\* the entries of a get_logs response, over all meal groups
ListedEntries(r) ==
    UNION {{r.data.meals[m][n] : n \in 1..Len(r.data.meals[m])} : m \in DOMAIN r.data.meals}

\* the logs of the caller of response r on the day r reports
OwnLogs(r) ==
    {i \in DOMAIN user_food_logs :
        user_food_logs[i].user_id = r.user_id /\ user_food_logs[i].logged_at = r.data.date}

RoundField(k, x) == IF k = "calories" THEN Round0(x) ELSE Round1(x)

\* C1: update_food leaves every log and its nutrition snapshot as it was; the
\* snapshot of an existing log changes only in an update_log of that log;
\* get_logs lists each entry with its stored snapshot and totals the stored
\* snapshots; summary totals the stored snapshots.
C1_SnapshotFrozen ==
    [][ /\ (resp'.op = "update_food" => user_food_logs' = user_food_logs)
        /\ \A i \in DOMAIN user_food_logs \cap DOMAIN user_food_logs' :
               user_food_logs'[i].nutrition # user_food_logs[i].nutrition
                   => resp'.op = "update_log" /\ resp'.data.logId = i
        /\ (resp'.op = "get_logs" /\ resp'.status = 200
               => /\ \A e \in ListedEntries(resp') :
                         e.nutrition = user_food_logs[e.id].nutrition
                  /\ \A k \in Fields :
                         resp'.data.totalNutrition[k] =
                             SumStored({e.id : e \in ListedEntries(resp')}, k))
        /\ (resp'.op = "summary" /\ resp'.status = 200
               => \A k \in Fields :
                     resp'.data.totalNutrition[k] =
                         RoundField(k, SumStored(OwnLogs(resp'), k)))
      ]_vars

\* a food edited after it was logged, and get_logs still lists the old snapshot
C1_Witness ==
    /\ resp.op = "get_logs" /\ resp.status = 200
    /\ foods["f1"].facts["calories"] = JNum(RInt(52))
    /\ \E e \in ListedEntries(resp) : e.nutrition["calories"] = RInt(95)

\* C3: update_log and delete_log called by one user with the id of another
\* user's entry answer 404 and change no entry; get_logs lists, and summary
\* counts and totals, the caller's own entries only.
C3_Ownership ==
    [][ /\ (/\ resp'.op \in {"update_log", "delete_log"}
            /\ resp'.user_id \in UserIds
            /\ resp'.data.logId \in DOMAIN user_food_logs
            /\ user_food_logs[resp'.data.logId].user_id # resp'.user_id)
               => resp'.status = 404 /\ user_food_logs' = user_food_logs
        /\ (resp'.op = "get_logs" /\ resp'.status = 200
               => /\ \A e \in ListedEntries(resp') :
                         user_food_logs[e.id].user_id = resp'.user_id
                  /\ resp'.data.totalLogs = Cardinality(OwnLogs(resp')))
        /\ (resp'.op = "summary" /\ resp'.status = 200
               => /\ resp'.data.totalLogs = Cardinality(OwnLogs(resp'))
                  /\ resp'.data.totalNutrition["calories"] =
                         Round0(SumStored(OwnLogs(resp'), "calories")))
      ]_vars

\* one user was answered 404 for an entry that exists and belongs to the other
C3_Witness ==
    /\ resp.op \in {"update_log", "delete_log"} /\ resp.status = 404
    /\ resp.user_id \in UserIds
    /\ resp.data.logId \in DOMAIN user_food_logs
    /\ user_food_logs[resp.data.logId].user_id # resp.user_id

\* the last request, of an authenticated caller, carried an input that does
\* not parse: a date that is no YYYY-MM-DD for get_logs or summary, a quantity
\* or originalAmount that is no number for update_log of an entry of the
\* caller's, a loggedAt that is no ISO date for log_food
ParseFailure(r) ==
    /\ r.user_id \in UserIds
    /\ \/ r.op \in {"get_logs", "summary"} /\ r.request = BadDate
       \/ /\ r.op = "update_log" /\ "find" \in r.steps /\ r.status # 404
          /\ (r.request.body.quantity = JBadStr \/ r.request.body.originalAmount = JBadStr)
       \/ /\ r.op = "log_food" /\ r.request.loggedAt = BadDate
          /\ "lookup" \in r.steps /\ r.status # 404

\* C15: a request to a food-log endpoint whose date, quantity, originalAmount
\* or loggedAt does not parse is answered with a 4xx status and success
\* false, and changes no log entry.
C15_ParseFailureIsClientError ==
    [][ ParseFailure(resp')
            => /\ resp'.status \in 400..499 /\ ~resp'.success
               /\ user_food_logs' = user_food_logs
      ]_vars

\* get_logs with a date that is no YYYY-MM-DD was answered 500
C15_BadDateIs500 ==
    /\ ParseFailure(resp) /\ resp.op = "get_logs" /\ resp.status = 500

\* update_log with a quantity that is no number was answered 500
C15_BadQuantityIs500 ==
    /\ ParseFailure(resp) /\ resp.op = "update_log" /\ resp.status = 500

\* log_food with a loggedAt that is no ISO date was answered 201 and stored
\* an entry dated today
C15_BadLoggedAtAccepted ==
    /\ ParseFailure(resp) /\ resp.op = "log_food" /\ resp.status = 201
    /\ user_food_logs[resp.data.logId].logged_at = today

\* C19: an add_food or update_food request that carries no valid admin
\* credential creates no food record and changes none.
C19_FoodsNeedAdmin ==
    [][ (resp'.op \in {"add_food", "update_food"} /\ require_admin(resp'.token).err # 0)
            => foods' = foods
      ]_vars

\* a request with no Authorization header has changed the calories of the
\* apple
C19_UnauthenticatedUpdate ==
    /\ resp.op = "update_food" /\ resp.token = NoHeader /\ resp.status = 200
    /\ require_admin(resp.token).err = 401
    /\ foods["f1"].facts["calories"] = JNum(RInt(52))

\* a request with no Authorization header has created a food
C19_UnauthenticatedAdd ==
    /\ resp.op = "add_food" /\ resp.token = NoHeader /\ resp.status = 201
    /\ resp.data.foodId \in DOMAIN foods
    /\ foods[resp.data.foodId].name = "Pear"

----------------------------------------------------------------------------
(* Claims checked under SpecCalc                                            *)

\* the last request was a log_food of an authenticated caller
LoggedBy(r) == r.op = "log_food" /\ r.user_id \in UserIds

\* C4: log_food with a quantity that is missing, null, not a number, zero or
\* negative answers 400 with success false, reaches neither the food lookup
\* nor the multiplier, and inserts nothing.
C4_BadQuantityRejected ==
    [][ (LoggedBy(resp') /\ resp'.request.quantity \in BadQuantities)
            => /\ resp'.status = 400 /\ ~resp'.success
               /\ resp'.steps \cap {"lookup", "multiplier", "insert"} = {}
               /\ user_food_logs' = user_food_logs
      ]_vars

\* a bad quantity sent with a unit that is a string, or with none, was rejected
C4_Witness ==
    /\ LoggedBy(resp) /\ resp.request.quantity \in BadQuantities
    /\ resp.request.unit.t # "nonstr"
    /\ resp.status = 400 /\ "validate" \in resp.steps

\* the same request with a unit that is no string: the handler died before
\* the validation
C4_NonStringUnit ==
    /\ LoggedBy(resp) /\ resp.request.quantity \in BadQuantities
    /\ resp.request.unit.t = "nonstr"
    /\ resp.status = 500 /\ "validate" \notin resp.steps

FoodsNonNegative ==
    \A f \in DOMAIN foods : \A k \in Fields : RLe(RInt(0), fact(foods[f], k))

\* C5: while every food's nutrition facts are non-negative, every stored log
\* entry has integer calories, every other field with one decimal place, and
\* no negative field.
C5_SnapshotRoundedNonNegative ==
    FoodsNonNegative =>
        \A i \in DOMAIN user_food_logs : \A k \in Fields :
            LET x == user_food_logs[i].nutrition[k]
            IN  /\ IF k = "calories" THEN IsInteger(x) ELSE IsOneDecimal(x)
                /\ RLe(RInt(0), x)

\* an update_log with a negative quantity stored a negative snapshot
C5_NegativeSnapshot ==
    /\ FoodsNonNegative
    /\ resp.op = "update_log" /\ resp.status = 200
    /\ resp.request.body.quantity = JNum(RInt(-182))
    /\ \E k \in Fields : RLt(user_food_logs[1].nutrition[k], RInt(0))

\* an update_log that supplied quantity, unit or originalAmount
Recalculates(body) ==
    body.quantity.t # "absent" \/ body.unit.t # "absent" \/ body.originalAmount.t # "absent"

\* what log_food derives for a food from the quantity, unit and originalAmount
\* of a body: its multiplier (or the exception) and the snapshot
LogFoodMultiplier(food, quantity, unit, originalAmount) ==
    log_food_multiplier(food, Float(quantity),
                        log_food_original_amount(quantity, Get(originalAmount, quantity)),
                        IF unit.t = "absent" THEN <<"g">> ELSE Lower(unit.s))

\* C6: a successful update_log that supplies quantity, unit or originalAmount,
\* with a quantity log_food accepts, stores the new quantity, and the snapshot
\* log_food derives for the same food, quantity, unit and originalAmount.
C6_UpdateDerivesAsLogFood ==
    [][ (/\ resp'.op = "update_log" /\ resp'.status = 200
         /\ Recalculates(resp'.request.body))
            => LET id == resp'.request.logId
                   body == resp'.request.body
                   food == foods[user_food_logs[id].food_id]
                   quantity == Get(body.quantity, JNum(user_food_logs[id].quantity))
                   m == LogFoodMultiplier(food, quantity, body.unit, body.originalAmount)
               IN  RPos(Float(quantity))
                      => /\ user_food_logs'[id].quantity = Float(quantity)
                         /\ m.ok
                         /\ user_food_logs'[id].nutrition = log_food_nutrition(food, m.value)
      ]_vars

\* an update_log with originalAmount 0 and a piece unit stored an all-zero
\* snapshot for a food log_food gives a non-zero one
C6_ZeroOriginalAmount ==
    /\ resp.op = "update_log" /\ resp.status = 200
    /\ resp.request.body.originalAmount = JNum(RInt(0))
    /\ resp.request.body.unit = SStr(U_egg)
    /\ resp.request.body.quantity = JNum(RInt(1))
    /\ user_food_logs[1].nutrition["calories"] = RInt(0)
    /\ LET m == LogFoodMultiplier(foods["f1"], JNum(RInt(1)), SStr(U_egg), JNum(RInt(0)))
       IN  m.ok /\ log_food_nutrition(foods["f1"], m.value)["calories"] # RInt(0)

\* a log_food of a food whose serving_size is "330 ml", with the unit "can"
CanOf330ml(r) ==
    /\ LoggedBy(r) /\ r.status = 201
    /\ foods[r.request.foodId].serving_size = S_330ml
    /\ r.request.unit.t = "str" /\ Lower(r.request.unit.s) = U_can

\* C10: for a food whose serving_size is "330 ml" and the unit "can", the
\* multiplier is the quantity divided by 330 whatever serving_weight_grams is:
\* a quantity of 330 gives 1, a quantity of 1 gives 1/330.
C10_CanDividesByMl ==
    CanOf330ml(resp) =>
        resp.data.multiplier = RDiv(Float(resp.request.quantity), RInt(330))

\* C10 as stated: a quantity of 1 gives the multiplier 1
C10_QuantityOneIsOneServing ==
    (CanOf330ml(resp) /\ resp.request.quantity = JNum(RInt(1)))
        => resp.data.multiplier = RInt(1)

\* one can logged with quantity 1 of a food whose serving_weight_grams is not 330
C10_Witness ==
    /\ CanOf330ml(resp) /\ resp.request.quantity = JNum(RInt(1))
    /\ foods[resp.request.foodId].serving_weight_grams # JNum(RInt(330))
    /\ resp.data.multiplier = Rat(1, 330)

\* a successful log_food with a piece-based unit of a food whose stored
\* serving_size (and serving) holds no "<number> g", or is missing
PieceWithoutGrams(r) ==
    /\ LoggedBy(r) /\ r.status = 201
    /\ r.request.unit.t = "str" /\ is_piece_based(Lower(r.request.unit.s))
    /\ LET food == foods[r.request.foodId]
           size == IF Len(food.serving_size) > 0 THEN food.serving_size ELSE food.serving
       IN  ~WEIGHT_PATTERN_search(size).found

\* the weight of one piece the heuristic gives
HeuristicWeight(unit, serving_weight) ==
    IF Contains(unit, U_egg) THEN RInt(50)
    ELSE IF Contains(unit, U_apple) THEN RInt(182)
    ELSE IF Contains(unit, U_banana) THEN RInt(118)
    ELSE IF RLt(serving_weight, RInt(200)) THEN serving_weight
    ELSE RInt(100)

\* the multiplier of originalAmount pieces of the heuristic weight
HeuristicMultiplier(r) ==
    LET food == foods[r.request.foodId]
        serving_weight == serving_weight_of(food).v
        original_amount == log_food_original_amount(r.request.quantity,
                               Get(r.request.originalAmount, r.request.quantity))
        weight_per_piece == HeuristicWeight(Lower(r.request.unit.s), serving_weight)
    IN  IF RPos(serving_weight)
        THEN RDiv(RMul(original_amount, weight_per_piece), serving_weight)
        ELSE RInt(1)

\* C11: for a piece-based unit and a food whose serving_size yields no
\* "<number> g" weight, a food with no serving_size at all included, the
\* weight of a piece is the heuristic's (50 g for egg, 182 g for apple, 118 g
\* for banana, else serving_weight_grams under 200, else 100) and the
\* multiplier is originalAmount times that weight over serving_weight_grams.
C11_HeuristicWithoutGrams ==
    PieceWithoutGrams(resp) => resp.data.multiplier = HeuristicMultiplier(resp)

\* two eggs of a food with serving_weight_grams 100 and no serving_size: the
\* default "100 g" was matched, a piece weighs 100 g and the multiplier is 2
C11_NoServingSizeWeighsDefault ==
    /\ PieceWithoutGrams(resp)
    /\ Len(foods[resp.request.foodId].serving_size) = 0
    /\ foods[resp.request.foodId].serving_weight_grams = JNum(RInt(100))
    /\ resp.request.unit = SStr(U_egg)
    /\ resp.request.originalAmount = JNum(RInt(2))
    /\ HeuristicMultiplier(resp) = RInt(1)
    /\ resp.data.multiplier = RInt(2)

\* a log_food in grams, with a positive quantity, of a food whose
\* serving_weight_grams is a positive number
GramsOfWeighedFood(r) ==
    /\ LoggedBy(r)
    /\ r.request.unit = SStr(U_g)
    /\ FloatOk(r.request.quantity) /\ RPos(Float(r.request.quantity))
    /\ foods[r.request.foodId].serving_weight_grams.t = "num"
    /\ RPos(foods[r.request.foodId].serving_weight_grams.v)

\* C12: with the unit "g", a positive quantity q and a positive
\* serving_weight_grams w, log_food succeeds with the multiplier q / w and
\* stores the food's facts times q / w, rounded; 182 g of a food with 95
\* calories and w = 182 is stored with 95 calories.
C12_GramsDivideByWeight ==
    GramsOfWeighedFood(resp) =>
        LET food == foods[resp.request.foodId]
            q == Float(resp.request.quantity)
            w == food.serving_weight_grams.v
        IN  /\ resp.status = 201
            /\ resp.data.multiplier = RDiv(q, w)
            /\ user_food_logs[resp.data.logId].nutrition = log_food_nutrition(food, RDiv(q, w))
            /\ (food = Apple /\ q = RInt(182))
                   => user_food_logs[resp.data.logId].nutrition["calories"] = RInt(95)

\* 182 g of the apple of the test have been logged with 95 calories
C12_Witness ==
    /\ GramsOfWeighedFood(resp)
    /\ foods[resp.request.foodId] = Apple
    /\ resp.request.quantity = JNum(RInt(182))
    /\ resp.data.multiplier = RInt(1)
    /\ user_food_logs[1].nutrition["calories"] = RInt(95)

\* a successful log_food with a piece-based unit and a numeric originalAmount
PieceLog(r) ==
    /\ LoggedBy(r) /\ r.status = 201
    /\ r.request.unit.t = "str" /\ is_piece_based(Lower(r.request.unit.s))
    /\ ~is_drink(Lower(r.request.unit.s))
    /\ r.request.originalAmount.t = "num"

\* an update_log that recalculated with a piece-based unit and a numeric
\* originalAmount
PieceUpdate(r) ==
    /\ r.op = "update_log" /\ r.status = 200 /\ "multiplier" \in r.steps
    /\ r.request.body.unit.t = "str" /\ is_piece_based(Lower(r.request.body.unit.s))
    /\ ~is_drink(Lower(r.request.body.unit.s))
    /\ r.request.body.originalAmount.t = "num"

Double(a) == JNum(RMul(RInt(2), a.v))

\* the multiplier log_food computes for the request r with originalAmount a
LogMultiplierFor(r, a) ==
    LogFoodMultiplier(foods[r.request.foodId], r.request.quantity, r.request.unit, a)

\* the multiplier update_log computes for the request r with originalAmount a
\* (the entry holds the quantity the update used)
UpdateMultiplierFor(r, a) ==
    LET log == user_food_logs[r.request.logId]
    IN  update_log_multiplier(foods[log.food_id], log.quantity, Float(a),
                              Lower(r.request.body.unit.s))

WeightNumberOrMissing(food) == food.serving_weight_grams.t \in {"absent", "null", "num"}

\* the serving weight the normalization works with: 100 for none or zero
WeightUsed(food) ==
    IF food.serving_weight_grams.t = "num" /\ food.serving_weight_grams.v # RInt(0)
    THEN food.serving_weight_grams.v ELSE RInt(100)

\* the number the quantity is divided by: the millilitres of the serving_size
\* for a drink when it names some, else the serving weight; 100 in place of a
\* value that is not positive
DivisorUsed(food, unit) ==
    LET ml == ML_PATTERN_search(serving_size_of(food))
        d == IF is_drink(unit) /\ ml.found THEN ml.value ELSE WeightUsed(food)
    IN  IF RLt(RInt(0), d) THEN d ELSE RInt(100)

\* the multiplier of a normalization without a zero divisor
SafeMultiplier(food, quantity, original_amount, unit) ==
    IF ~is_drink(unit) /\ is_piece_based(unit)
    THEN LET weight == WEIGHT_PATTERN_search(serving_size_of(food))
             weight_per_piece == IF weight.found THEN weight.value
                                 ELSE HeuristicWeight(unit, WeightUsed(food))
         IN  IF RLt(RInt(0), WeightUsed(food))
             THEN RDiv(RMul(original_amount, weight_per_piece), WeightUsed(food))
             ELSE RInt(1)
    ELSE RDiv(quantity, DivisorUsed(food, unit))

\* C14: for a food whose serving_weight_grams is a number (zero and negative
\* included) or missing, and any serving_size ("0 ml" and "0 g" included),
\* the unit normalization of log_food and update_log raises nothing and
\* divides by a positive number: the serving weight, which is 100 when
\* serving_weight_grams is zero or missing, the millilitres of the
\* serving_size for a drink, or 100 in place of a value that is not positive.
C14_NoZeroDivision ==
    /\ (LoggedBy(resp) /\ "lookup" \in resp.steps
            /\ WeightNumberOrMissing(foods[resp.request.foodId])) =>
           LET food == foods[resp.request.foodId]
               unit == IF resp.request.unit.t = "absent" THEN U_g
                       ELSE Lower(resp.request.unit.s)
               quantity == Float(resp.request.quantity)
               original_amount ==
                   log_food_original_amount(resp.request.quantity,
                       Get(resp.request.originalAmount, resp.request.quantity))
           IN  /\ resp.status = 201
               /\ RLt(RInt(0), DivisorUsed(food, unit))
               /\ ~Truthy(food.serving_weight_grams) => WeightUsed(food) = RInt(100)
               /\ resp.data.multiplier[2] # 0
               /\ resp.data.multiplier = SafeMultiplier(food, quantity, original_amount, unit)
    /\ (resp.op = "update_log" /\ resp.status = 200 /\ "lookup" \in resp.steps
            /\ WeightNumberOrMissing(foods[user_food_logs[resp.request.logId].food_id])) =>
           LET log == user_food_logs[resp.request.logId]
               food == foods[log.food_id]
               body == resp.request.body
               unit == IF body.unit.t = "absent" THEN U_g ELSE Lower(body.unit.s)
               original_amount == Float(Get(body.originalAmount, JNum(log.quantity)))
               multiplier == SafeMultiplier(food, log.quantity, original_amount, unit)
           IN  /\ "multiplier" \in resp.steps
               /\ RLt(RInt(0), DivisorUsed(food, unit))
               /\ multiplier[2] # 0
               /\ log.nutrition = update_log_nutrition(food, multiplier)

\* a can of a food whose serving_size is "0 ml" was logged: the quantity was
\* divided by 100
C14_Witness ==
    /\ LoggedBy(resp) /\ resp.status = 201
    /\ foods[resp.request.foodId].serving_size = S_0ml
    /\ resp.request.unit = SStr(U_can)
    /\ resp.request.quantity = JNum(RInt(330))
    /\ resp.data.multiplier = Rat(330, 100)

\* a piece of a food stored with serving_weight_grams 0 and "0 g" was logged
C14_ZeroWeightWitness ==
    /\ LoggedBy(resp) /\ resp.status = 201
    /\ foods[resp.request.foodId].serving_weight_grams = JNum(RInt(0))
    /\ foods[resp.request.foodId].serving_size = S_0g
    /\ resp.request.unit = SStr(U_piece)
    /\ resp.data.multiplier = RInt(0)

\* an exception was raised while the last request was handled: log_food's
\* data.get('unit', 'g').lower() on a unit that is no string (outside any try,
\* left to the app's handler) or its multiplier (inside its try), or the
\* multiplier of update_log's recalculation for a food that was found
RaisedWhileHandling(r) ==
    \/ /\ LoggedBy(r)
       /\ \/ r.request.unit.t = "nonstr"
          \/ /\ "lookup" \in r.steps /\ r.request.foodId \in DOMAIN foods
             /\ ~LogFoodMultiplier(foods[r.request.foodId], r.request.quantity,
                                   r.request.unit, r.request.originalAmount).ok
    \/ /\ r.op = "update_log" /\ "lookup" \in r.steps
       /\ user_food_logs[r.request.logId].food_id \in DOMAIN foods
       /\ "multiplier" \notin r.steps

\* C17: a request during whose handling an exception was raised is answered
\* with success false and a status of 400 or more.
C17_ExceptionIsErrorResponse ==
    RaisedWhileHandling(resp) => (~resp.success /\ resp.status >= 400)

\* update_log's recalculation raised for a food whose serving_weight_grams is
\* a string: the request was answered 200, the quantity was changed and the
\* snapshot was not
C17_SwallowedException ==
    /\ RaisedWhileHandling(resp) /\ resp.op = "update_log"
    /\ resp.status = 200 /\ resp.success
    /\ foods[user_food_logs[1].food_id].serving_weight_grams.t = "numstr"
    /\ resp.request.body.quantity = JNum(RInt(330))
    /\ user_food_logs[1].quantity = RInt(330)

\* log_food's unit was no string: the exception reached the app's handler,
\* which answered 500 with success false
C17_UnhandledException ==
    /\ RaisedWhileHandling(resp) /\ resp.op = "log_food"
    /\ resp.request.unit.t = "nonstr"
    /\ resp.status = 500 /\ ~resp.success

----------------------------------------------------------------------------
(* Claims checked under SpecAuth                                            *)

FoodLogOps == {"log_food", "get_logs", "update_log", "delete_log", "summary"}

UserDataOps ==
    {"get_profile_photo", "upload_profile_photo", "delete_profile_photo",
     "remove_profile_photo", "get_profile", "put_profile", "get_goals_today",
     "put_goals_today", "get_meals_today", "save_meals_today", "get_meals_by_date",
     "add_meal_entry", "get_meals_history", "delete_meals_by_date",
     "get_weekly_report", "get_monthly_report", "get_yearly_report",
     "get_activity_today", "save_activity_today", "add_exercise",
     "update_water_intake", "delete_exercise", "get_activity_history"}

AdminOps ==
    {"get_all_users", "get_user", "toggle_admin_status", "delete_user",
     "delete_user_history", "get_admin_stats", "bulk_user_operations", "get_admin_logs"}

\* C2: a request to a food-logs, user-data or admin endpoint with a missing,
\* malformed, invalid or expired bearer token is answered 401 having gone no
\* further than the token check: it reads no collection and leaves the logs,
\* the meal, activity, profile and goal documents and the users as they were.
C2_RejectedTokenTouchesNothing ==
    [][ resp'.token \in RejectedTokens
            => /\ resp'.op \in FoodLogOps \cup UserDataOps \cup AdminOps
               /\ resp'.status = 401
               /\ resp'.steps = {"auth"}
               /\ UNCHANGED <<user_food_logs, user_docs, users, foods>> ]_vars

\* an expired token has asked to delete today's meals of u1, which u1 had
\* extended before with a valid token, and was answered 401
C2_Witness ==
    /\ resp.op = "delete_meals_by_date" /\ resp.token = Expired
    /\ resp.status = 401
    /\ Doc("u1", TodayKey, <<100, 100>>) \in user_docs["daily_meals"]

----------------------------------------------------------------------------
(* Claims checked under SpecChat                                            *)

\* the requests of chat state c that passed the limiter
AdmittedRequests(c) == {r \in ChatRequests : c.requests[r].admitted_at > 0}

Distance(a, b) == IF a >= b THEN a - b ELSE b - a

AdmissionsSpaced(c) ==
    \A r1, r2 \in AdmittedRequests(c) :
        r1 # r2 => Distance(c.requests[r1].admitted_at, c.requests[r2].admitted_at)
                       >= CHAT_MIN_INTERVAL

\* C8: the check of _last_request_time and its update are one critical
\* section: the admission times of any two requests that pass the limiter are
\* at least CHAT_MIN_INTERVAL apart, whatever the interleaving; a request
\* whose check comes sooner than that after the timestamp is answered 429 in
\* its next step, having sent no upstream call and left the timestamp alone.
C8_LimiterAtomic ==
    [][ /\ AdmissionsSpaced(chat')
        /\ \A r \in ChatRequests :
               LET q == chat.requests[r]
                   after == chat'.requests[r]
               IN  q.pc = "locked" /\ q.now < chat.last_request_time + CHAT_MIN_INTERVAL
                       => \/ after = q /\ chat'.last_request_time = chat.last_request_time
                          \/ /\ after.pc = "done" /\ after.status = 429
                             /\ after.sent = 0 /\ after.admitted_at = 0
                             /\ chat'.calls = chat.calls
                             /\ chat'.last_request_time = chat.last_request_time ]_vars

\* one request was admitted and the other, checking less than
\* CHAT_MIN_INTERVAL later, was answered 429 without an upstream call
C8_Witness ==
    \E r1, r2 \in ChatRequests :
        LET a == chat.requests[r1]
            b == chat.requests[r2]
        IN  /\ a.admitted_at > 0
            /\ b.pc = "done" /\ b.status = 429 /\ b.sent = 0
            /\ b.now > a.admitted_at /\ b.now < a.admitted_at + CHAT_MIN_INTERVAL

\* the calls of request r, in the order they were sent
RECURSIVE CallsOf(_, _)
CallsOf(calls, r) ==
    IF calls = <<>> THEN <<>>
    ELSE IF calls[1].request = r THEN <<calls[1]>> \o CallsOf(Tail(calls), r)
    ELSE CallsOf(Tail(calls), r)

\* the least time the loops of chat_message let pass after call c before the
\* next call n of the same request
LeastGap(c, n) ==
    IF n.key_index # c.key_index THEN backup_key_sleep
    ELSE IF c.outcome = "429" THEN retry_wait(c.retry_after, c.attempt)
    ELSE 2 * (1 + c.attempt)

----------------------------------------------------------------------------
(* Claims checked under SpecReport                                          *)

ReportOps == {"get_weekly_report", "get_monthly_report", "get_yearly_report"}

\* the number of days the report of response r looks back over
WindowDays(r) ==
    CASE r.op = "get_weekly_report" -> 7
      [] r.op = "get_monthly_report" -> 30
      [] OTHER -> 365

\* the caller's documents of a collection dated within the window of r
WindowDocs(r, coll) ==
    {d \in user_docs[coll] :
        /\ d.userId = r.user_id
        /\ ToOrdinal(d.date) >= ToOrdinal(r.data.endDate) - (WindowDays(r) - 1)
        /\ ToOrdinal(d.date) <= ToOrdinal(r.data.endDate)}

\* the entries of the report r whose sub-period holds the date of document d
EntriesOf(r, d) ==
    {n \in DOMAIN r.data.data :
        CASE r.op = "get_weekly_report" -> r.data.data[n].key = d.date
          [] r.op = "get_monthly_report" ->
                 r.data.data[n].key =
                     ((ToOrdinal(d.date) - ToOrdinal(r.data.startDate)) \div 7) + 1
          [] OTHER -> r.data.data[n].key = MonthKey(d.date)}

\* C7: a weekly, monthly or yearly report counts every daily_meals and
\* daily_activity document of the caller dated within its window (the last 7,
\* 30 or 365 days ending today) in exactly one sub-period entry, and its
\* totals are the sums over those documents.
C7_ReportCountsWindowOnce ==
    resp.op \in ReportOps /\ resp.status = 200
        => /\ \A d \in WindowDocs(resp, "daily_meals") \cup WindowDocs(resp, "daily_activity") :
                  Cardinality(EntriesOf(resp, d)) = 1
           /\ resp.data.totals.calories = SumItems(WindowDocs(resp, "daily_meals"))
           /\ resp.data.totals.caloriesBurned
                  = RInt(SumItems(WindowDocs(resp, "daily_activity")))

\* the monthly report of a caller who recorded a meal today totals no calories
C7_MonthlyDropsToday ==
    /\ resp.op = "get_monthly_report" /\ resp.status = 200
    /\ \E d \in user_docs["daily_meals"] :
           d.userId = resp.user_id /\ d.date = resp.data.endDate /\ SumSeq(d.items) > 0
    /\ resp.data.totals.calories = 0

----------------------------------------------------------------------------
(* Claims checked under SpecUpstream                                        *)

\* the chat request sent calls upstream and was answered without success
ChatUpstreamFailed(q) == q.pc = "done" /\ q.sent > 0 /\ q.status # 200

\* C16: when the upstream calls fail (HTTP error, network error), chat_message
\* and analyze_photo answer 502 or 500, never the upstream's own status.
C16_UpstreamFailureIs502or500 ==
    /\ \A r \in ChatRequests :
           ChatUpstreamFailed(chat.requests[r]) => chat.requests[r].status \in {500, 502}
    /\ (resp.op = "analyze_photo" /\ upstream_failed(resp.request, chat.backup))
           => resp.status \in {500, 502}

\* with no backup key, the upstream answered the photo analysis 401 and the
\* client was answered 401
C16_VisionPassesStatusThrough ==
    /\ resp.op = "analyze_photo" /\ upstream_failed(resp.request, chat.backup)
    /\ ~chat.backup /\ resp.request.first = "401"
    /\ resp.status = 401

\* every call of the chat request was answered 429 and so was the client
C16_ChatPasses429Through ==
    /\ ChatUpstreamFailed(chat.requests[1])
    /\ \A i \in 1..Len(chat.calls) : chat.calls[i].outcome = "429"
    /\ chat.requests[1].status = 429

----------------------------------------------------------------------------
(* Claims checked under SpecUpsert                                          *)

\* the documents of a daily collection with one userId and date
SameDay(coll, user_id, date) ==
    {d \in user_docs[coll] : d.userId = user_id /\ d.date = date}

\* C18: whatever the interleaving of concurrent save_meals_today,
\* add_meal_entry, save_activity_today, add_exercise and update_water_intake
\* requests, daily_meals and daily_activity each hold at most one document
\* for a user and a date.
C18_OneDocumentPerUserAndDate ==
    \A coll \in DailyCollections : \A d \in user_docs[coll] :
        Cardinality(SameDay(coll, d.userId, d.date)) <= 1

\* two requests of u1 both found no meal document of today and both have
\* inserted one
C18_TwoDocumentsOfOneDay ==
    /\ pending = {}
    /\ Cardinality(SameDay("daily_meals", "u1", TodayKey)) = 2
    /\ resp.status = 200 /\ resp.user_id = "u1"

----------------------------------------------------------------------------
(* Claims checked under SpecRegister                                        *)

\* users holds a document with this email and name
UserExists(email, name) ==
    \E u \in DOMAIN users : users[u].email = email /\ users[u].name = name

\* C20: once register has answered 201 for a name, a new email and a strong
\* password, users holds a document with that email and name.
C20_RegisteredUserExists ==
    (resp.op = "register" /\ resp.status = 201)
        => UserExists(resp.request.email, resp.request.name)

\* register has answered 201 for New User: the registration is pending and
\* users holds no document with the email
C20_RegisteredIsPending ==
    /\ resp.op = "register" /\ resp.status = 201
    /\ resp.request = RegisterBody("New User", "newuser@example.com", P_strong)
    /\ \E code \in 1..MaxCodes :
           PendingUser("New User", "newuser@example.com", code) \in pending_registrations
    /\ find_user_by_email("newuser@example.com") = {}

\* the user exists once the code has been verified
C20_VerifiedUserExists ==
    /\ resp.op = "verify_email_code" /\ resp.status = 200
    /\ resp.request.email = "newuser@example.com"
    /\ UserExists("newuser@example.com", "New User")

----------------------------------------------------------------------------
(* Claims checked under SpecExercise                                        *)

\* the body names a duration that is a number and is zero or negative
NonPositiveDuration(data) ==
    data.duration.t = "num" /\ ~RPos(data.duration.v)

\* the exercises of the user's documents of today
StoredExercises(user_id) ==
    {d.items[i] : <<d, i>> \in
        {<<d, i>> \in find_docs("daily_activity", user_id, TodayKey) \X (1..MaxItems) :
            i <= Len(d.items)}}

\* C21: add_exercise called by a user with a duration that is zero or
\* negative answers 400 with success false and appends no exercise to the
\* user's daily_activity document.
C21_NonPositiveDurationRejected ==
    [][\A data \in ExerciseBodies :
           (add_exercise_request(AccessToken("u1"), data) /\ NonPositiveDuration(data))
               => /\ resp'.status = 400
                  /\ ~resp'.success
                  /\ user_docs' = user_docs]_vars

\* add_exercise has answered 200 to a duration of -10 and the exercise is in
\* today's document
C21_NegativeDurationStored ==
    /\ resp.op = "add_exercise" /\ resp.status = 200 /\ resp.success
    /\ resp.request = ExerciseBody(N_running, JNum(RInt(-10)), JNum(RInt(300)))
    /\ [name |-> N_running, duration |-> RInt(-10), caloriesBurned |-> RInt(300)]
           \in StoredExercises("u1")

\* the exercises add_exercise can store
AddedExercises ==
    {exercise_of(data) : data \in {b \in ExerciseBodies : add_exercise_status(b) = 200}}

\* how many times the list holds the exercise
CountOf(exercises, e) == Cardinality({i \in 1..Len(exercises) : exercises[i] = e})

\* the exercises of the user's document of today (<<>> without one)
ExercisesOf(docs, user_id) ==
    LET found == {d \in docs["daily_activity"] : d.userId = user_id /\ d.date = TodayKey}
    IN  IF found = {} THEN <<>> ELSE (CHOOSE d \in found : TRUE).items

\* 1 when the request p deletes this exercise, else 0
DeletedBy(p, e) ==
    IF p.op = "delete_exercise" /\ p.read[p.index + 1] = e THEN 1 ELSE 0

\* C30: the write of a request that read the exercises earlier
\* (delete_exercise, get_activity_today) removes no exercise that
\* add_exercise has stored, except the one it deletes.
C30_AddedExerciseSurvives ==
    [][\A p \in pending : \A e \in AddedExercises :
           activity_update_one(p)
               => CountOf(ExercisesOf(user_docs', "u1"), e)
                      >= CountOf(ExercisesOf(user_docs, "u1"), e) - DeletedBy(p, e)]_vars

\* add_exercise has answered success while a delete_exercise of another
\* exercise is between its find_one and its update_one: the list the delete
\* is about to write lacks the added exercise
C30_AddedAfterRead ==
    \E p \in pending :
        /\ p.op = "delete_exercise" /\ p.read = <<Walking>> /\ p.change.items = <<>>
        /\ resp.op = "add_exercise" /\ resp.status = 200
        /\ ExercisesOf(user_docs, "u1") = <<Walking, resp.data.exercise>>

----------------------------------------------------------------------------
(* Claims checked under SpecAdmin                                           *)

AdminOperations == {"toggle_admin_status", "delete_user", "bulk_user_operations"}

\* the step keeps the account of the main admin, and keeps it an admin
MainAdminKept ==
    \A u \in DOMAIN users :
        users[u].email = ADMIN_EMAIL
            => u \in DOMAIN users' /\ (users[u].is_admin => users'[u].is_admin)

\* the step keeps the account of the admin whose call it answers, and keeps
\* it an admin
CallerKept ==
    (resp'.op \in AdminOperations /\ resp'.status = 200)
        => resp'.user_id \in DOMAIN users' /\ users'[resp'.user_id].is_admin

\* C22: no admin operation deletes or demotes the account with the main
\* admin email, and none deletes or demotes the account of the admin who
\* calls it.
C22_AdminsProtected == [][MainAdminKept /\ CallerKept]_vars

\* the account of the main admin alone is kept by every step
MainAdminProtected == [][MainAdminKept]_vars

\* the admin u2 has deleted the own account, named in upper case
C22_DeletedOwnAccount ==
    /\ resp.op = "delete_user" /\ resp.status = 200
    /\ resp.user_id = "u2" /\ resp.request.user_id = "U2"
    /\ "u2" \notin DOMAIN users

\* the documents that reference the user
References(user_id) ==
    [users |-> IF user_id \in DOMAIN users THEN {users[user_id]} ELSE {},
     user_food_logs |-> {i \in DOMAIN user_food_logs : user_food_logs[i].user_id = user_id},
     user_docs |-> [c \in Collections |-> {d \in user_docs[c] : d.userId = user_id}]]

NoReferences ==
    [users |-> {}, user_food_logs |-> {}, user_docs |-> [c \in Collections |-> {}]]

\* C23: once delete_user has answered success for a user, no document of
\* users, user_food_logs, daily_meals, daily_activity, user_profiles or
\* user_goals references the user.
C23_DeletedUserLeavesNothing ==
    (resp.op = "delete_user" /\ resp.status = 200)
        => References(ObjectId(resp.request.user_id)) = NoReferences

\* delete_user has answered success for u2: the account and the food logs
\* are gone, the documents of the four user-data collections are there
C23_DocumentsOutliveUser ==
    /\ resp.op = "delete_user" /\ resp.status = 200 /\ resp.request.user_id = "u2"
    /\ References("u2").users = {} /\ References("u2").user_food_logs = {}
    /\ \A c \in Collections : References("u2").user_docs[c] # {}

----------------------------------------------------------------------------
(* Claims checked under SpecVerify                                          *)

EmailsOf(accounts) == {accounts[u].email : u \in DOMAIN accounts}

\* the code issued last for the email among its pending registrations
LatestCode(email) ==
    CHOOSE m \in {0} \cup {r.code : r \in find_pending(email)} :
        \A r \in find_pending(email) : r.code <= m

\* a step that creates the user of an email answers verify_email_code
\* called with the code issued last for the email, not yet expired
CreatedByLatestCode ==
    \A email \in VerifyEmails :
        (email \notin EmailsOf(users) /\ email \in EmailsOf(users'))
            => /\ resp'.op = "verify_email_code" /\ resp'.request.email = email
               /\ resp'.request.code = LatestCode(email)
               /\ \E r \in find_pending(email) : r.code = LatestCode(email) /\ ~r.expired

\* register leaves users alone
RegisterKeepsUsers ==
    (/\ \/ \E data \in VerifyBodies \cup RegisterBodies, email_sent \in BOOLEAN :
              register_find(data, email_sent) \/ register(data, email_sent)
        \/ \E p \in pending : register_insert(p))
        => users' = users

\* a code that no unexpired pending registration of the email holds creates
\* no user, and verify_email_code deletes an expired registration
WrongOrExpiredCreatesNothing ==
    \A email \in VerifyEmails, code \in 1..MaxCodes :
        (/\ verify_email_code(email, code)
         /\ find_pending(email) # {}
         /\ \A r \in find_pending(email) : r.expired \/ r.code # code)
            => /\ users' = users
               /\ (\A r \in find_pending(email) : r.expired)
                      => \E r \in find_pending(email) : r \notin pending_registrations'

\* after a successful verification no pending registration of the email
\* remains
VerifiedLeavesNoPending ==
    \A email \in VerifyEmails, code \in 1..MaxCodes :
        (verify_email_code(email, code) /\ resp'.status = 200)
            => \A r \in pending_registrations' : r.email # email

\* C24: register never inserts into users; the user of an email is created
\* only by verify_email_code called with the code issued last for the email
\* before it expires; a wrong or expired code creates no user and an expired
\* pending registration is deleted; after a successful verification no
\* pending registration of the email remains.
C24_RegistrationFlow ==
    [][/\ RegisterKeepsUsers
       /\ CreatedByLatestCode
       /\ WrongOrExpiredCreatesNothing
       /\ VerifiedLeavesNoPending]_vars

\* two registers of one email have both inserted: the email has two pending
\* registrations with two codes
C24_TwoPendingRegistrations ==
    \E r1, r2 \in find_pending("newuser@example.com") :
        r1.code < r2.code /\ ~r1.expired /\ ~r2.expired

\* the email was verified with the older code and its other pending
\* registration is still there
C24_PendingOutlivesVerification ==
    /\ resp.op = "verify_email_code" /\ resp.status = 200
    /\ "newuser@example.com" \in EmailsOf(users)
    /\ \E r \in find_pending("newuser@example.com") : r.code > resp.request.code

----------------------------------------------------------------------------
(* Claims checked under SpecReset                                           *)

\* the step answers verify_code or reset_password, called for the email
\* with a code that a reset_password has succeeded with since the last
\* forgot_password
CallWithSpentCode(email, code) ==
    /\ \/ verify_code(email, code)
       \/ \E new_password \in {P_strong, P_new} : reset_password(email, code, new_password)
    /\ \E u \in find_account(users, email) : code \in users[u].spent_codes

\* C25: once reset_password has succeeded with a code, verify_code and
\* reset_password called with that code answer 400 until forgot_password
\* issues a code again; verify_code does not consume the code.
C25_CodeResetsOnce ==
    [][/\ \A email \in ResetEmails, code \in ResetCodes :
              CallWithSpentCode(email, code) => resp'.status = 400
       /\ \A email \in ResetEmails, code \in ResetCodes :
              verify_code(email, code) => users' = users]_vars

\* reset_password with the code that has reset the password already is
\* answered 400
C25_SecondResetRefused ==
    /\ resp.op = "reset_password" /\ resp.status = 400
    /\ resp.data.message = M_invalid_code
    /\ resp.request.newPassword = P_new
    /\ \E u \in find_account(users, resp.request.email) :
           /\ resp.request.code \in users[u].spent_codes
           /\ users[u].password = hash_password(P_strong)

\* C26: forgot_password answers a request for the email of a user as it
\* would answer it were that user missing: same status, same body.
C26_ForgotPasswordHidesAccounts ==
    \A email \in ResetEmails : \A u \in find_account(users, email) :
        forgot_password_answer(users, email)
            = forgot_password_answer(users_without(u), email)

\* forgot_password has answered for the email of a user, and for an email
\* of no user
C26_AnsweredForUser ==
    /\ resp.op = "forgot_password" /\ resp.status = 200
    /\ find_account(users, resp.request.email) # {}
    /\ resp.data.message = M_sent
    /\ forgot_password_answer(users, "nobody@example.com") = Answer(200, M_sent)

----------------------------------------------------------------------------
(* Claims checked under SpecCache                                           *)

\* the keys a step removes from the cache
RemovedKeys == KeysOf(cache.entries) \ KeysOf(cache'.entries)

\* the keys of the entries with the oldest set time
OldestKeys ==
    {cache.entries[i].key : i \in
        {i \in 1..Len(cache.entries) :
            \A j \in 1..Len(cache.entries) :
                cache.entries[i].timestamp <= cache.entries[j].timestamp}}

\* the keys of the entries whose TTL has passed
ExpiredKeys ==
    {cache.entries[i].key : i \in
        {i \in 1..Len(cache.entries) : is_expired(cache.entries[i], cache.now)}}

\* the cleanup of expired entries, due every five minutes, runs in the step
CleanupDue == cache.now - cache.last_cleanup >= cleanup_interval

IsFull == Len(cache.entries) >= cache.max_size

SetOf(key) == \E ttl \in CacheTTLs : cache_set(key, "data of " \o key, ttl)

\* size() is at most max_size after the step
SizeBounded == Len(cache'.entries) <= cache'.max_size

\* get returns the data of no entry whose TTL has passed
GetReturnsFresh ==
    \A key \in CacheKeys :
        (cache_get(key) /\ resp'.data.data # None)
            => \E i \in 1..Len(cache.entries) :
                   /\ cache.entries[i].key = key
                   /\ cache.entries[i].data = resp'.data.data
                   /\ ~is_expired(cache.entries[i], cache.now)

\* C27 as stated: size() stays at most max_size; a set of a new key into a
\* full cache removes exactly one entry, of the oldest set time; a set of a
\* key already present evicts nothing (no entry goes whose TTL has not
\* passed); get returns no expired data.
C27_EvictsExactlyOldest ==
    [][/\ SizeBounded
       /\ GetReturnsFresh
       /\ \A key \in CacheKeys :
              (SetOf(key) /\ key \notin KeysOf(cache.entries) /\ IsFull)
                  => \E k \in OldestKeys : RemovedKeys = {k}
       /\ \A key \in CacheKeys :
              (SetOf(key) /\ key \in KeysOf(cache.entries))
                  => RemovedKeys \subseteq ExpiredKeys]_vars

\* C27, amended: as stated, except that a set in which the cleanup is due
\* and finds expired entries removes exactly the expired entries (of other
\* keys) and evicts nothing else.
C27_EvictsOldestOrExpired ==
    [][/\ SizeBounded
       /\ GetReturnsFresh
       /\ \A key \in CacheKeys :
              (SetOf(key) /\ key \notin KeysOf(cache.entries) /\ IsFull)
                  => IF CleanupDue /\ ExpiredKeys # {}
                     THEN RemovedKeys = ExpiredKeys
                     ELSE \E k \in OldestKeys : RemovedKeys = {k}
       /\ \A key \in CacheKeys :
              (SetOf(key) /\ key \in KeysOf(cache.entries))
                  => RemovedKeys = IF CleanupDue THEN ExpiredKeys \ {key} ELSE {}]_vars

\* a set of c has run the cleanup: the cache of two entries holds c next to
\* a, whose set time is the oldest there can be, and b is gone
C27_CleanupInsteadOfEviction ==
    /\ resp.op = "set" /\ resp.request.key = "c"
    /\ cache.max_size = 2 /\ cache.last_cleanup = cache.now /\ cache.now >= cleanup_interval
    /\ Len(cache.entries) = 2
    /\ cache.entries[1].key = "a" /\ cache.entries[1].timestamp = 0
    /\ cache.entries[2].key = "c" /\ cache.entries[2].timestamp = cache.now

----------------------------------------------------------------------------
(* Claims checked under SpecChatFair                                        *)

KeyCalls(cs, key_index) == {i \in 1..Len(cs) : cs[i].key_index = key_index}

Admitted(r) == chat.requests[r].pc \in {"send", "backoff", "raised"}

Responded(r) == chat.requests[r].pc = "done" /\ chat.requests[r].status # 0

CallsBounded ==
    \A r \in ChatRequests :
        LET cs == CallsOf(chat.calls, r)
        IN  /\ Len(cs) = chat.requests[r].sent
            /\ IF chat.backup
               THEN /\ Len(cs) <= 4
                    /\ Cardinality(KeyCalls(cs, 0)) <= 1
                    /\ Cardinality(KeyCalls(cs, 1)) <= 3
                    /\ \A i \in KeyCalls(cs, 1), j \in KeyCalls(cs, 0) : j < i
                    /\ KeyCalls(cs, 1) # {} => Cardinality(KeyCalls(cs, 0)) = 1
               ELSE /\ Len(cs) <= 3
                    /\ KeyCalls(cs, 0) = 1..Len(cs)

\* C28: every admitted chat request ends with a response, after at most 3
\* upstream calls without a backup key and at most 4 with one: one call with
\* the primary key, then at most 3 with the backup key, and no call with the
\* primary key after a call with the backup key
C28_RespondsAfterBoundedCalls ==
    /\ []CallsBounded
    /\ \A r \in ChatRequests : Admitted(r) ~> Responded(r)

\* a request answered after one call with the primary key and three with
\* the backup key
C28_FourCallsThenResponse ==
    \E r \in ChatRequests :
        /\ chat.backup
        /\ Responded(r)
        /\ chat.requests[r].sent = 4
        /\ Cardinality(KeyCalls(CallsOf(chat.calls, r), 1)) = 3

----------------------------------------------------------------------------
(* Claims checked under SpecVision                                          *)

Successes(calls) == {i \in 1..Len(calls) : calls[i].outcome = "ok"}

\* C29: once an upstream call of analyze_photo has returned a successful
\* response, no further upstream call is made for the request, and that
\* response is the one parsed and returned
C29_FirstSuccessIsReturned ==
    resp.op = "analyze_photo" =>
        \A i \in Successes(resp.data.calls) :
            /\ i = Len(resp.data.calls)
            /\ resp.data.parsed = i
            /\ resp.status = vision_result_status(resp.request.content)

\* the primary key answered 429, the backup key succeeded on the primary
\* model, and a fallback model was called all the same
C29_CalledAfterSuccess ==
    /\ resp.op = "analyze_photo"
    /\ Len(resp.data.calls) >= 3
    /\ resp.data.calls[1] = VisionCall("primary_model", 0, "429")
    /\ resp.data.calls[2] = VisionCall("primary_model", 1, "ok")
    /\ resp.data.calls[3].model = fallback_models[1]
    /\ resp.data.parsed # 2

====
